---- MODULE Spec2Model ----
(***************************************************************************)
(* A model of the waste-audit store of atu-auditing-app                    *)
(* (src/lib/database.ts): the audits / waste_data / images tables, the     *)
(* section codec (JSON.stringify / JSON.parse, toString / parseInt) and    *)
(* the store operations saveWasteAudit, updateWasteAudit, getWasteAudit,   *)
(* deleteWasteAudit, wasteAuditExists.                                     *)
(*                                                                         *)
(* Text is modelled as a sequence of lexical tokens, a JavaScript value as *)
(* a one-field record whose field name is its type tag, a JavaScript       *)
(* object as the sequence of its <<key, value>> pairs in insertion order.  *)
(* The notes column of waste_data is written but never read by any        *)
(* operation and is left out of the rows. The rows of waste_data are kept  *)
(* grouped by audit_id, each group in rowid order: every statement of the  *)
(* module selects rows by audit_id, and none reads the order of rows that  *)
(* belong to different audits.                                             *)
(***************************************************************************)
EXTENDS Integers, Sequences, FiniteSets, TLC

VARIABLES
    audits,       \* the audits table: a set of rows [id |-> n]
    nextAuditId,  \* the AUTOINCREMENT counter of the audits table
    waste_data,   \* the waste_data table: for each audit_id its rows in rowid order
    images,       \* the images table: a set of rows [audit_id |-> n]
    clock,        \* the wall clock read by new Date()
    last,         \* the last call that wrote to the database and what it returned
    calls,        \* the store calls in flight, one per caller
    commits,      \* the callers whose transaction has ended, in the order it ended
    before        \* the waste_data table before any call in flight ran

concVars == <<calls, commits, before>>
vars == <<audits, nextAuditId, waste_data, images, clock, last, calls, commits, before>>

-----------------------------------------------------------------------------
(* Bounds of the model                                                     *)

MaxAuditId == 2      \* audit ids a caller may pass or the registry may assign
MaxRows == 4         \* rows the waste_data table may hold
MaxKeys == 1         \* keys present in a partial record passed by a caller
MaxClock == 1        \* readings of the wall clock
MaxNumeral == 9      \* largest integer the codec's numerals are looked up for

AuditIds == 1..MaxAuditId

-----------------------------------------------------------------------------
(* JavaScript values                                                       *)

Undefined == [undef |-> TRUE]
Null == [null |-> TRUE]
NaN == [nan |-> TRUE]
Bool(b) == [bool |-> b]
Num(n) == [num |-> n]
Str(s) == [str |-> s]
Arr(elems) == [arr |-> elems]
Obj(pairs) == [obj |-> pairs]

IsUndefined(v) == "undef" \in DOMAIN v
IsNull(v) == "null" \in DOMAIN v
IsNaN(v) == "nan" \in DOMAIN v
IsBool(v) == "bool" \in DOMAIN v
IsNum(v) == "num" \in DOMAIN v
IsStr(v) == "str" \in DOMAIN v
IsArr(v) == "arr" \in DOMAIN v
IsObj(v) == "obj" \in DOMAIN v

\* if (v): undefined, null, NaN, false, 0 and "" are falsy
Truthy(v) ==
    /\ ~IsUndefined(v)
    /\ ~IsNull(v)
    /\ ~IsNaN(v)
    /\ (IsBool(v) => v.bool)
    /\ (IsNum(v) => v.num # 0)
    /\ (IsStr(v) => v.str # "")

\* typeof v === 'object'
TypeofObject(v) == IsObj(v) \/ IsArr(v) \/ IsNull(v)

\* v.key of a parsed JSON value: undefined unless v is an object holding key
Member(v, key) ==
    IF IsObj(v) /\ \E i \in 1..Len(v.obj) : v.obj[i][1] = key
    THEN v.obj[CHOOSE i \in 1..Len(v.obj) : v.obj[i][1] = key][2]
    ELSE Undefined

\* the operand of a numeric comparison: null is 0, a boolean 0 or 1,
\* undefined, objects and the model's strings are NaN
ToNumber(v) ==
    IF IsNum(v) THEN v
    ELSE IF IsNull(v) THEN Num(0)
    ELSE IF IsBool(v) THEN Num(IF v.bool THEN 1 ELSE 0)
    ELSE NaN

\* a < b: false as soon as one operand is NaN
Less(a, b) ==
    LET x == ToNumber(a)
        y == ToNumber(b)
    IN  IsNum(x) /\ IsNum(y) /\ x.num < y.num

\* data[key] of a partial record: undefined when the key is absent
Prop(data, key) == IF key \in DOMAIN data THEN data[key] ELSE Undefined

-----------------------------------------------------------------------------
(* The section codec                                                       *)

Digits == <<"0", "1", "2", "3", "4", "5", "6", "7", "8", "9">>

\* Number.prototype.toString of an integer: a sign and its decimal digits
RECURSIVE NumToStr(_)
NumToStr(n) ==
    IF n < 0 THEN "-" \o NumToStr(-n)
    ELSE IF n < 10 THEN Digits[n + 1]
    ELSE NumToStr(n \div 10) \o Digits[(n % 10) + 1]

\* a token is a numeral when it is the decimal text of an integer
Numerals == { NumToStr(n) : n \in -MaxNumeral..MaxNumeral }
IsNumeral(tok) == tok \in Numerals
NumeralValue(tok) == CHOOSE n \in -MaxNumeral..MaxNumeral : NumToStr(n) = tok

\* the strings the model's payloads and keys are made of
StringPool ==
    { "binInventory", "totalBins", "outdoorBinsPresent", "binType",
      "signagePresent", "dry_recyclables", "assessments", "totalAnnualCost",
      "synced", "pending", "offline",
      "wasteStream", "estimatedWeeklyVolumeLitres", "contaminationLevel",
      "annualCostEuros", "organic", "general_waste", "kitchenPresent",
      "foodWasteVolumeKgPerWeek", "compostingCapacityLitres" }

\* a JSON string literal: the string between double quotes
Quote(s) == "\"" \o s \o "\""
StringLiterals == { Quote(s) : s \in StringPool }
IsQuoted(tok) == tok \in StringLiterals
Unquote(tok) == CHOOSE s \in StringPool : Quote(s) = tok

RECURSIVE Stringify(_), StringifyElems(_), StringifyMembers(_, _)

\* JSON.stringify(v) for a value that is not undefined
Stringify(v) ==
    IF IsNull(v) \/ IsNaN(v) THEN <<"null">>
    ELSE IF IsBool(v) THEN <<IF v.bool THEN "true" ELSE "false">>
    ELSE IF IsNum(v) THEN <<NumToStr(v.num)>>
    ELSE IF IsStr(v) THEN <<Quote(v.str)>>
    ELSE IF IsArr(v) THEN <<"[">> \o StringifyElems(v.arr) \o <<"]">>
    ELSE <<"{">> \o StringifyMembers(v.obj, TRUE) \o <<"}">>

\* the elements of an array, comma separated; undefined is written as null
StringifyElems(elems) ==
    IF elems = <<>> THEN <<>>
    ELSE (IF IsUndefined(Head(elems)) THEN <<"null">> ELSE Stringify(Head(elems)))
         \o (IF Tail(elems) = <<>> THEN <<>> ELSE <<",">> \o StringifyElems(Tail(elems)))

\* the members of an object in insertion order; undefined members are dropped
StringifyMembers(pairs, first) ==
    IF pairs = <<>> THEN <<>>
    ELSE IF IsUndefined(Head(pairs)[2]) THEN StringifyMembers(Tail(pairs), first)
    ELSE (IF first THEN <<>> ELSE <<",">>)
         \o <<Quote(Head(pairs)[1]), ":">> \o Stringify(Head(pairs)[2])
         \o StringifyMembers(Tail(pairs), FALSE)

ParseFail == [ok |-> FALSE]
Parsed(v, rest) == [ok |-> TRUE, val |-> v, rest |-> rest]

RECURSIVE ParseValue(_), ParseElems(_, _), ParseMembers(_, _)

\* one JSON value at the head of toks
ParseValue(toks) ==
    IF toks = <<>> THEN ParseFail
    ELSE LET tok == Head(toks)
             rest == Tail(toks)
         IN  IF tok = "null" THEN Parsed(Null, rest)
             ELSE IF tok = "true" THEN Parsed(Bool(TRUE), rest)
             ELSE IF tok = "false" THEN Parsed(Bool(FALSE), rest)
             ELSE IF IsNumeral(tok) THEN Parsed(Num(NumeralValue(tok)), rest)
             ELSE IF IsQuoted(tok) THEN Parsed(Str(Unquote(tok)), rest)
             ELSE IF tok = "[" THEN
                 IF rest # <<>> /\ Head(rest) = "]" THEN Parsed(Arr(<<>>), Tail(rest))
                 ELSE ParseElems(rest, <<>>)
             ELSE IF tok = "{" THEN
                 IF rest # <<>> /\ Head(rest) = "}" THEN Parsed(Obj(<<>>), Tail(rest))
                 ELSE ParseMembers(rest, <<>>)
             ELSE ParseFail

\* the elements of an array after "[" or ",", up to the closing "]"
ParseElems(toks, acc) ==
    LET e == ParseValue(toks)
    IN  IF ~e.ok \/ e.rest = <<>> THEN ParseFail
        ELSE IF Head(e.rest) = "]" THEN Parsed(Arr(Append(acc, e.val)), Tail(e.rest))
        ELSE IF Head(e.rest) = "," THEN ParseElems(Tail(e.rest), Append(acc, e.val))
        ELSE ParseFail

\* the members of an object after "{" or ",", up to the closing "}"
ParseMembers(toks, acc) ==
    IF Len(toks) < 2 \/ ~IsQuoted(toks[1]) \/ toks[2] # ":" THEN ParseFail
    ELSE LET m == ParseValue(SubSeq(toks, 3, Len(toks)))
             pair == <<Unquote(toks[1]), m.val>>
         IN  IF ~m.ok \/ m.rest = <<>> THEN ParseFail
             ELSE IF Head(m.rest) = "}" THEN Parsed(Obj(Append(acc, pair)), Tail(m.rest))
             ELSE IF Head(m.rest) = "," THEN ParseMembers(Tail(m.rest), Append(acc, pair))
             ELSE ParseFail

\* JSON.parse(text): the value, or a SyntaxError
JSONparse(text) ==
    LET p == ParseValue(text)
    IN  IF p.ok /\ p.rest = <<>> THEN [ok |-> TRUE, val |-> p.val] ELSE ParseFail

\* value.toString() of a primitive that has the method
toString(v) ==
    IF IsBool(v) THEN <<IF v.bool THEN "true" ELSE "false">>
    ELSE IF IsNum(v) THEN <<NumToStr(v.num)>>
    ELSE IF IsNaN(v) THEN <<"NaN">>
    ELSE IF IsStr(v) THEN <<v.str>>
    ELSE <<"[object Object]">>

\* null and undefined have no toString method: calling it throws a TypeError
HasToString(v) == ~IsNull(v) /\ ~IsUndefined(v)

\* parseInt(text): the integer of a leading numeral, NaN otherwise
ParseInt(text) ==
    IF text # <<>> /\ IsNumeral(Head(text)) THEN Num(NumeralValue(Head(text))) ELSE NaN

RECURSIVE Concat(_)
\* a column text read back as a JavaScript string
Concat(text) == IF text = <<>> THEN "" ELSE Head(text) \o Concat(Tail(text))

-----------------------------------------------------------------------------
(* The database: audits, waste_data and images                             *)

\* the six section names, in the order saveWasteAudit walks them
sections ==
    << "facilityInfrastructure", "wasteStreamsAssessment", "specialWasteManagement",
       "organicWasteComposting", "wastePreventionMeasures", "behavioralTraining" >>

SectionNames == { sections[i] : i \in 1..Len(sections) }

\* the order in which the callers insert the keys of a partial record
\* (Object.keys order): the form's record, to which the endpoints add
\* syncStatus and lastSaved
KeyOrder ==
    << "id", "auditId" >> \o sections \o
    << "completedSections", "isQuickMode", "syncStatus", "lastSaved" >>

\* new Date().toISOString() at a reading of the clock
ToISOString(t) == "2024-01-15T10:00:0" \o NumToStr(t) \o ".000Z"

Database == [audits |-> audits, waste_data |-> waste_data, images |-> images]

Row(auditId, key, response) ==
    [audit_id |-> auditId, item_key |-> key, response |-> response]

\* the statements a transaction runs; Throw is a JavaScript exception raised
\* while the arguments of the next statement are evaluated
DeleteWasteData(auditId) == [op |-> "DELETE FROM waste_data", audit_id |-> auditId]
DeleteImages(auditId) == [op |-> "DELETE FROM images", audit_id |-> auditId]
Insert(auditId, key, response) ==
    [op |-> "INSERT INTO waste_data", row |-> Row(auditId, key, response)]
InsertOrReplace(auditId, key, response) ==
    [op |-> "INSERT OR REPLACE INTO waste_data", row |-> Row(auditId, key, response)]
Throw(message) == [op |-> "throw", message |-> message]

\* the check of the references with foreign_keys = OFF: every row passes
ForeignKeyUnchecked(db, row) == TRUE

\* FOREIGN KEY (audit_id) REFERENCES audits(id), with foreign_keys = ON
ForeignKeyHolds(db, row) == \E a \in db.audits : a.id = row.audit_id

\* The positions, among the stored rows of the new row's audit, of the rows
\* that collide with the new row on a uniqueness constraint of waste_data. The table's only unique column is its
\* AUTOINCREMENT id, which every insert leaves to the database to assign, so
\* no stored row ever collides.
ConflictingRows(rows, row) == {}

RemoveRows(rows, positions) ==
    LET F[i \in 0..Len(rows)] ==
            IF i = 0 THEN <<>>
            ELSE IF i \in positions THEN F[i - 1] ELSE Append(F[i - 1], rows[i])
    IN  F[Len(rows)]

StmtOk(db) == [ok |-> TRUE, db |-> db]
StmtError(db, message) == [ok |-> FALSE, db |-> db, error |-> message]

\* one statement run against the database
ExecStmt(db, stmt) ==
    IF stmt.op = "DELETE FROM waste_data" THEN
        StmtOk([db EXCEPT !.waste_data =
                    [id \in DOMAIN db.waste_data |->
                        IF id = stmt.audit_id THEN <<>> ELSE db.waste_data[id]]])
    ELSE IF stmt.op = "DELETE FROM images" THEN
        StmtOk([db EXCEPT !.images = { i \in db.images : i.audit_id # stmt.audit_id }])
    ELSE IF stmt.op = "INSERT INTO waste_data" THEN
        IF ForeignKeyHolds(db, stmt.row)
        THEN StmtOk([db EXCEPT !.waste_data[stmt.row.audit_id] =
                        Append(db.waste_data[stmt.row.audit_id], stmt.row)])
        ELSE StmtError(db, "FOREIGN KEY constraint failed")
    ELSE IF stmt.op = "INSERT OR REPLACE INTO waste_data" THEN
        IF ForeignKeyHolds(db, stmt.row)
        THEN LET rows == db.waste_data[stmt.row.audit_id]
             IN  StmtOk([db EXCEPT !.waste_data[stmt.row.audit_id] =
                            Append(RemoveRows(rows, ConflictingRows(rows, stmt.row)),
                                   stmt.row)])
        ELSE StmtError(db, "FOREIGN KEY constraint failed")
    ELSE StmtError(db, stmt.message)

\* The statements of a transaction body run in order from statement i. The
\* run stops at the first statement that raises an error; statement number
\* fault (0 for none) is one the storage layer fails to run, the number after
\* the last statement standing for COMMIT.
RECURSIVE RunStmts(_, _, _, _)
RunStmts(db, stmts, i, fault) ==
    IF i = fault THEN StmtError(db, "disk I/O error")
    ELSE IF i > Len(stmts) THEN StmtOk(db)
    ELSE LET r == ExecStmt(db, stmts[i])
         IN  IF r.ok THEN RunStmts(r.db, stmts, i + 1, fault) ELSE r

\* a transaction whose failure leaves the statements already run in place
TransactionNoRollback(db, stmts, fault) == RunStmts(db, stmts, 1, fault)

\* db.transaction(fn)(...): BEGIN, the body, COMMIT; when the body throws,
\* ROLLBACK restores the database and the exception is thrown on
Transaction(db, stmts, fault) ==
    LET r == RunStmts(db, stmts, 1, fault)
    IN  IF r.ok THEN r ELSE StmtError(db, r.error)

-----------------------------------------------------------------------------
(* The store operations of database.ts                                     *)

\* lines 118-127: one insert per section of the fixed list that data holds
SectionInserts(auditId, data) ==
    LET present == SelectSeq(sections, LAMBDA s : Truthy(Prop(data, s)))
    IN  [i \in 1..Len(present) |->
            Insert(auditId, present[i], Stringify(data[present[i]]))]

\* the scalar written only when it is truthy: if (data.key) ...
ScalarInsertTruthy(auditId, data, key) ==
    LET v == Prop(data, key)
    IN  IF ~Truthy(v) THEN <<>> ELSE <<Insert(auditId, key, toString(v))>>

\* lines 130-136: if (data.key !== undefined) insert data.key.toString()
ScalarInsert(auditId, data, key) ==
    LET v == Prop(data, key)
    IN  IF IsUndefined(v) THEN <<>>
        ELSE IF HasToString(v) THEN <<Insert(auditId, key, toString(v))>>
        ELSE <<Throw("Cannot read properties of null (reading 'toString')")>>

\* lines 138-140: if (data.syncStatus) insert it as it is
SyncStatusInsert(auditId, data) ==
    LET v == Prop(data, "syncStatus")
    IN  IF ~Truthy(v) THEN <<>>
        ELSE IF IsStr(v) THEN <<Insert(auditId, "syncStatus", <<v.str>>)>>
        ELSE IF IsNum(v) THEN <<Insert(auditId, "syncStatus", <<NumToStr(v.num)>>)>>
        ELSE <<Throw("SQLite3 can only bind numbers, strings, bigints, buffers, and null")>>

\* a save that keeps the stored rows and adds the new ones
SaveStatementsMerging(auditId, data, now) ==
    SectionInserts(auditId, data)
    \o ScalarInsert(auditId, data, "completedSections")
    \o ScalarInsert(auditId, data, "isQuickMode")
    \o SyncStatusInsert(auditId, data)
    \o <<Insert(auditId, "lastSaved", <<ToISOString(now)>>)>>

\* the body of saveTransaction
SaveStatements(auditId, data, now) ==
    <<DeleteWasteData(auditId)>>
    \o SectionInserts(auditId, data)
    \o ScalarInsert(auditId, data, "completedSections")
    \o ScalarInsert(auditId, data, "isQuickMode")
    \o SyncStatusInsert(auditId, data)
    \o <<Insert(auditId, "lastSaved", <<ToISOString(now)>>)>>

\* saveWasteAudit(auditId, wasteAuditData): the response and the database after
saveWasteAudit(db, auditId, data, now, fault) ==
    LET t == Transaction(db, SaveStatements(auditId, data, now), fault)
    IN  IF t.ok
        THEN [ret |-> [success |-> TRUE, wasteAuditId |-> auditId], db |-> t.db]
        ELSE [ret |-> [success |-> FALSE,
                       validationErrors |-> <<"Failed to save waste audit: " \o t.error>>],
              db |-> t.db]

\* Object.keys(updates), in insertion order
ObjectKeys(data) == SelectSeq(KeyOrder, LAMBDA k : k \in DOMAIN data)

\* lines 227-236: one upsert per key of updates whose value is not undefined
UpdateUpserts(auditId, updates) ==
    LET keys == SelectSeq(ObjectKeys(updates), LAMBDA k : ~IsUndefined(updates[k]))
    IN  [i \in 1..Len(keys) |->
            LET value == updates[keys[i]]
            IN  IF TypeofObject(value)
                THEN InsertOrReplace(auditId, keys[i], Stringify(value))
                ELSE InsertOrReplace(auditId, keys[i], toString(value))]

\* an update that clears the audit's rows before it writes
UpdateStatementsReplacing(auditId, updates, now) ==
    <<DeleteWasteData(auditId)>>
    \o UpdateUpserts(auditId, updates)
    \o <<InsertOrReplace(auditId, "lastSaved", <<ToISOString(now)>>)>>

\* the body of updateTransaction
UpdateStatements(auditId, updates, now) ==
    UpdateUpserts(auditId, updates)
    \o <<InsertOrReplace(auditId, "lastSaved", <<ToISOString(now)>>)>>

\* an update that reports success whatever became of its transaction
updateWasteAuditOptimistic(db, auditId, updates, now, fault) ==
    LET t == Transaction(db, UpdateStatements(auditId, updates, now), fault)
    IN  [ret |-> TRUE, db |-> t.db]

\* updateWasteAudit(auditId, updates): true, or false when the transaction threw
updateWasteAudit(db, auditId, updates, now, fault) ==
    LET t == Transaction(db, UpdateStatements(auditId, updates, now), fault)
    IN  [ret |-> t.ok, db |-> t.db]

\* a delete that leaves the image rows behind
DeleteStatementsDataOnly(auditId) == <<DeleteWasteData(auditId)>>

\* the body of deleteTransaction
DeleteStatements(auditId) == <<DeleteWasteData(auditId), DeleteImages(auditId)>>

\* a delete that takes the audit's row of the audits table with it
deleteWasteAuditCascading(db, auditId, fault) ==
    LET t == Transaction(db, DeleteStatements(auditId), fault)
    IN  [ret |-> t.ok,
         db |-> [t.db EXCEPT !.audits = { a \in t.db.audits : a.id # auditId }]]

\* deleteWasteAudit(auditId): true, or false when the transaction threw
deleteWasteAudit(db, auditId, fault) ==
    LET t == Transaction(db, DeleteStatements(auditId), fault)
    IN  [ret |-> t.ok, db |-> t.db]

\* record[key] = value
Assign(record, key, value) ==
    [k \in DOMAIN record \cup {key} |-> IF k = key THEN value ELSE record[k]]

\* lines 186-205: one stored row decoded into the record under construction
DecodeRow(record, row) ==
    IF row.item_key \in SectionNames THEN
        LET p == JSONparse(row.response)
        IN  IF p.ok THEN Assign(record, row.item_key, p.val) ELSE record
    ELSE IF row.item_key = "completedSections" THEN
        Assign(record, "completedSections", ParseInt(row.response))
    ELSE IF row.item_key = "isQuickMode" THEN
        Assign(record, "isQuickMode", Bool(row.response = <<"true">>))
    ELSE IF row.item_key = "syncStatus" THEN
        Assign(record, "syncStatus", Str(Concat(row.response)))
    ELSE IF row.item_key = "lastSaved" THEN
        Assign(record, "lastSaved", Str(Concat(row.response)))
    ELSE record

\* SELECT item_key, response FROM waste_data WHERE audit_id = ?
RecordsOf(db, auditId) ==
    IF auditId \in DOMAIN db.waste_data THEN db.waste_data[auditId] ELSE <<>>

\* SELECT COUNT(*) FROM waste_data
RECURSIVE SumLen(_, _)
SumLen(table, ids) ==
    IF ids = {} THEN 0
    ELSE LET id == CHOOSE i \in ids : TRUE
         IN  Len(table[id]) + SumLen(table, ids \ {id})
RowCount(table) == SumLen(table, DOMAIN table)

\* a read that gives up, returning null, when an item key is stored twice
getWasteAuditUnique(db, auditId) ==
    LET records == RecordsOf(db, auditId)
        F[i \in 0..Len(records)] ==
            IF i = 0 THEN [k \in {"auditId"} |-> Num(auditId)]
            ELSE DecodeRow(F[i - 1], records[i])
    IN  IF Len(records) = 0 THEN Null
        ELSE IF \E i, j \in 1..Len(records) :
                    i < j /\ records[i].item_key = records[j].item_key
             THEN Null
        ELSE F[Len(records)]

\* a read that lets a JSON.parse error reach the outer catch: null as soon as
\* the text of a section row cannot be parsed
getWasteAuditStrict(db, auditId) ==
    LET records == RecordsOf(db, auditId)
        F[i \in 0..Len(records)] ==
            IF i = 0 THEN [k \in {"auditId"} |-> Num(auditId)]
            ELSE DecodeRow(F[i - 1], records[i])
    IN  IF Len(records) = 0 THEN Null
        ELSE IF \E i \in 1..Len(records) :
                    /\ records[i].item_key \in SectionNames
                    /\ ~JSONparse(records[i].response).ok
             THEN Null
        ELSE F[Len(records)]

\* a read that raises, and so returns null, on a row whose item key it does
\* not decode
getWasteAuditClosed(db, auditId) ==
    LET records == RecordsOf(db, auditId)
        F[i \in 0..Len(records)] ==
            IF i = 0 THEN [k \in {"auditId"} |-> Num(auditId)]
            ELSE DecodeRow(F[i - 1], records[i])
    IN  IF Len(records) = 0 THEN Null
        ELSE IF \E i \in 1..Len(records) :
                    records[i].item_key \notin
                        SectionNames \cup {"completedSections", "isQuickMode",
                                           "syncStatus", "lastSaved"}
             THEN Null
        ELSE F[Len(records)]

\* getWasteAudit(auditId): null, or the record rebuilt from the rows
getWasteAudit(db, auditId) ==
    LET records == RecordsOf(db, auditId)
        F[i \in 0..Len(records)] ==
            IF i = 0 THEN [k \in {"auditId"} |-> Num(auditId)]
            ELSE DecodeRow(F[i - 1], records[i])
    IN  IF Len(records) = 0 THEN Null ELSE F[Len(records)]

\* an existence test that asks the audits table instead of waste_data
wasteAuditExistsRegistered(db, auditId) == \E a \in db.audits : a.id = auditId

\* wasteAuditExists(auditId): SELECT COUNT(*) ... > 0
wasteAuditExists(db, auditId) == Len(RecordsOf(db, auditId)) > 0

-----------------------------------------------------------------------------
(* The partial records callers pass                                        *)

\* a facilityInfrastructure section with one bin documented
FacilityOneBin ==
    Obj(<< <<"binInventory",
             Arr(<< Obj(<< <<"binType", Str("dry_recyclables")>>,
                           <<"signagePresent", Bool(TRUE)>> >>) >>)>>,
           <<"totalBins", Num(1)>>,
           <<"outdoorBinsPresent", Bool(FALSE)>> >>)

\* the form's initial wasteStreamsAssessment section
StreamsEmpty ==
    Obj(<< <<"assessments", Arr(<<>>)>>, <<"totalAnnualCost", Num(0)>> >>)

InputKeys ==
    { "facilityInfrastructure", "wasteStreamsAssessment",
      "completedSections", "isQuickMode", "syncStatus" }

\* the values a caller may give a key; null and a string are what a JSON
\* body can put where the type asks for a number and for a section
Options(key) ==
    CASE key = "facilityInfrastructure" -> {FacilityOneBin, Str("pending")}
      [] key = "wasteStreamsAssessment" -> {StreamsEmpty}
      [] key = "completedSections" -> {Num(0), Null}
      [] key = "isQuickMode" -> {Bool(FALSE), Bool(TRUE)}
      [] key = "syncStatus" -> {Str("offline")}

Partials ==
    UNION { { data \in [keys -> UNION { Options(k) : k \in keys }] :
                \A k \in keys : data[k] \in Options(k) } :
            keys \in { ks \in SUBSET InputKeys : Cardinality(ks) <= MaxKeys } }

NoData == <<>>

\* the sections a partial record holds
SectionsOf(data) == DOMAIN data \cap SectionNames

-----------------------------------------------------------------------------
(* The calls                                                               *)

Call(op, id, data, ret) == [op |-> op, id |-> id, data |-> data, ret |-> ret]

\* the callers that may have a store call in flight at the same time
Slots == {1, 2}

\* a caller with no call in flight
Idle ==
    [pc |-> "idle", op |-> "none", id |-> 0, data |-> NoData, now |-> 0,
     stmts |-> <<>>, next |-> 0, snapshot |-> <<>>, raced |-> FALSE, ret |-> FALSE]

Stored(db) ==
    /\ audits' = db.audits
    /\ waste_data' = db.waste_data
    /\ images' = db.images

\* POST /api/audit/create: INSERT INTO audits
CreateAudit ==
    /\ nextAuditId <= MaxAuditId
    /\ audits' = audits \cup {[id |-> nextAuditId]}
    /\ nextAuditId' = nextAuditId + 1
    /\ last' = Call("createAudit", nextAuditId, NoData, TRUE)
    /\ UNCHANGED <<waste_data, images, clock, concVars>>

\* The images table: no store operation writes it, deleteWasteAudit clears it.
\* A row is put there for a registered audit, as the foreign key asks.
InsertImage(auditId) ==
    /\ \E a \in audits : a.id = auditId
    /\ images' = images \cup {[audit_id |-> auditId]}
    /\ last' = Call("insertImage", auditId, NoData, TRUE)
    /\ UNCHANGED <<audits, nextAuditId, waste_data, clock, concVars>>

\* time passes between two calls
Tick ==
    /\ clock < MaxClock
    /\ clock' = clock + 1
    /\ UNCHANGED <<audits, nextAuditId, waste_data, images, last, concVars>>

SaveWasteAudit(auditId, data, fault) ==
    \E r \in {saveWasteAudit(Database, auditId, data, clock, fault)} :
        /\ RowCount(r.db.waste_data) <= MaxRows
        /\ Stored(r.db)
        /\ last' = Call("save", auditId, IF r.ret.success THEN data ELSE NoData, r.ret)
        /\ UNCHANGED <<nextAuditId, clock, concVars>>

UpdateWasteAudit(auditId, updates, fault) ==
    \E r \in {updateWasteAudit(Database, auditId, updates, clock, fault)} :
        /\ RowCount(r.db.waste_data) <= MaxRows
        /\ Stored(r.db)
        /\ last' = Call("update", auditId, IF r.ret THEN updates ELSE NoData, r.ret)
        /\ UNCHANGED <<nextAuditId, clock, concVars>>

DeleteWasteAudit(auditId, fault) ==
    \E r \in {deleteWasteAudit(Database, auditId, fault)} :
        /\ Stored(r.db)
        /\ last' = Call("delete", auditId, NoData, r.ret)
        /\ UNCHANGED <<nextAuditId, clock, concVars>>

\* the read operations run SELECT statements only; what they return is the
\* value of getWasteAudit and wasteAuditExists in the current state
GetWasteAudit(auditId) ==
    /\ auditId \in AuditIds
    /\ UNCHANGED vars

WasteAuditExists(auditId) ==
    /\ auditId \in AuditIds
    /\ UNCHANGED vars

Init ==
    /\ audits = {}
    /\ nextAuditId = 1
    /\ waste_data = [id \in AuditIds |-> <<>>]
    /\ images = {}
    /\ clock = 0
    /\ last = Call("init", 0, NoData, TRUE)
    /\ calls = [slot \in Slots |-> Idle]
    /\ commits = <<>>
    /\ before = waste_data

Next ==
    \/ CreateAudit
    \/ Tick
    \/ \E auditId \in AuditIds : InsertImage(auditId)
    \/ \E auditId \in AuditIds, data \in Partials : SaveWasteAudit(auditId, data, 0)
    \/ \E auditId \in AuditIds, updates \in Partials : UpdateWasteAudit(auditId, updates, 0)
    \/ \E auditId \in AuditIds : DeleteWasteAudit(auditId, 0)
    \/ \E auditId \in AuditIds : GetWasteAudit(auditId)
    \/ \E auditId \in AuditIds : WasteAuditExists(auditId)

Spec == Init /\ [][Next]_vars

-----------------------------------------------------------------------------
(* Store calls in flight at the same time                                  *)
(*                                                                         *)
(* saveWasteAudit and updateWasteAudit are async functions whose bodies    *)
(* hold no await: once a call starts, BEGIN, its statements and COMMIT or  *)
(* ROLLBACK run on the one database connection before any other call       *)
(* starts. Callers that have issued a call wait for their turn in any      *)
(* order.                                                                  *)

\* a caller's call may start only while no other call is inside its transaction
CanRunAlways(slot) == TRUE

CanRun(slot) == \A other \in Slots \ {slot} : calls[other].pc # "running"

\* a caller issues saveWasteAudit or updateWasteAudit and awaits the result
IssueCall(slot, op, auditId, data) ==
    /\ calls[slot].pc = "idle"
    /\ calls' = [calls EXCEPT ![slot] =
                    [Idle EXCEPT !.pc = "queued", !.op = op, !.id = auditId, !.data = data]]
    /\ UNCHANGED <<audits, nextAuditId, waste_data, images, clock, last, commits, before>>

\* the call starts: BEGIN, and the statements its body is going to run
BeginCall(slot) ==
    /\ calls[slot].pc = "queued"
    /\ CanRun(slot)
    /\ LET call == calls[slot]
       IN  calls' = [calls EXCEPT ![slot] =
                       [call EXCEPT
                           !.pc = "running",
                           !.now = clock,
                           !.stmts = IF call.op = "save"
                                     THEN SaveStatements(call.id, call.data, clock)
                                     ELSE UpdateStatements(call.id, call.data, clock),
                           !.next = 1,
                           !.snapshot = waste_data,
                           !.raced = \E other \in Slots \ {slot} :
                                         calls[other].pc \in {"queued", "running"}]]
    /\ UNCHANGED <<audits, nextAuditId, waste_data, images, clock, last, commits, before>>

\* the next statement of the body runs; a statement that raises ends the
\* transaction with ROLLBACK and the call with its failure result
StepCall(slot) ==
    /\ calls[slot].pc = "running"
    /\ calls[slot].next <= Len(calls[slot].stmts)
    /\ \E r \in {ExecStmt(Database, calls[slot].stmts[calls[slot].next])} :
          IF r.ok
          THEN /\ Stored(r.db)
               /\ calls' = [calls EXCEPT ![slot].next = @ + 1]
               /\ UNCHANGED commits
          ELSE /\ waste_data' = calls[slot].snapshot
               /\ calls' = [calls EXCEPT ![slot].pc = "done", ![slot].ret = FALSE]
               /\ commits' = Append(commits, slot)
               /\ UNCHANGED <<audits, images>>
    /\ UNCHANGED <<nextAuditId, clock, last, before>>

\* the body has run to its end: COMMIT, and the call returns its success result
CommitCall(slot) ==
    /\ calls[slot].pc = "running"
    /\ calls[slot].next > Len(calls[slot].stmts)
    /\ calls' = [calls EXCEPT ![slot].pc = "done", ![slot].ret = TRUE]
    /\ commits' = Append(commits, slot)
    /\ UNCHANGED <<audits, nextAuditId, waste_data, images, clock, last, before>>

\* the stores the callers may find: audit 1 registered, with the rows of a
\* successful save of a section or with none
StoresBefore ==
    LET registered == [audits |-> {[id |-> 1]},
                       waste_data |-> [id \in AuditIds |-> <<>>],
                       images |-> {}]
    IN  {registered.waste_data}
        \cup { saveWasteAudit(registered, 1, data, 0, 0).db.waste_data :
                    data \in { d \in Partials : SectionsOf(d) # {} } }

\* the first caller saves; the second saves or updates
CallsOf(slot) == IF slot = 1 THEN {"save"} ELSE {"save", "update"}

InitConcurrent ==
    /\ audits = {[id |-> 1]}
    /\ nextAuditId = 2
    /\ waste_data \in StoresBefore
    /\ images = {}
    /\ clock = 0
    /\ last = Call("init", 0, NoData, TRUE)
    /\ calls = [slot \in Slots |-> Idle]
    /\ commits = <<>>
    /\ before = waste_data

NextConcurrent ==
    \/ Tick
    \/ \E slot \in Slots, auditId \in AuditIds, data \in Partials :
          \E op \in CallsOf(slot) : IssueCall(slot, op, auditId, data)
    \/ \E slot \in Slots : BeginCall(slot)
    \/ \E slot \in Slots : StepCall(slot)
    \/ \E slot \in Slots : CommitCall(slot)

SpecConcurrent == InitConcurrent /\ [][NextConcurrent]_vars

-----------------------------------------------------------------------------
(* The save and autosave endpoints                                         *)

MaxBodyRows == 4     \* rows the waste_data table may hold under the endpoints

\* an optional member of a JSON body: left out when it has no value
Optional(key, value) == IF IsUndefined(value) THEN <<>> ELSE << <<key, value>> >>

\* one waste stream of a wasteStreamsAssessment section
Stream(volume, level, cost) ==
    Obj(<< <<"wasteStream", Str("dry_recyclables")>>,
           <<"estimatedWeeklyVolumeLitres", volume>>,
           <<"contaminationLevel", level>> >>
        \o Optional("annualCostEuros", cost))

StreamsOf(stream) == Obj(<< <<"assessments", Arr(<<stream>>)>> >>)

Organic(food, capacity) ==
    Obj(<< <<"kitchenPresent", Bool(TRUE)>> >>
        \o Optional("foodWasteVolumeKgPerWeek", food)
        \o Optional("compostingCapacityLitres", capacity))

\* the form's initial facilityInfrastructure section: no bin documented yet
FacilityNoBins ==
    Obj(<< <<"binInventory", Arr(<<>>)>>,
           <<"totalBins", Num(0)>>,
           <<"outdoorBinsPresent", Bool(FALSE)>> >>)

BodyKeys == InputKeys \cup {"auditId", "organicWasteComposting"}

\* the values a request body may give a key of wasteAuditData: what the form
\* sends, numbers outside their ranges, and a string where a section belongs
BodyOptions(key) ==
    CASE key = "auditId" -> { Num(id) : id \in AuditIds }
      [] key = "facilityInfrastructure" -> {FacilityOneBin, FacilityNoBins, Str("pending")}
      [] key = "wasteStreamsAssessment" ->
            {StreamsEmpty}
            \cup { StreamsOf(Stream(Num(volume), Num(level), cost)) :
                       volume \in {-1, 5}, level \in {3, 6}, cost \in {Undefined, Num(-1)} }
      [] key = "organicWasteComposting" ->
            { Organic(Num(-1), Num(4)), Organic(Num(2), Num(-1)), Organic(Undefined, Num(4)) }
      [] key = "completedSections" -> {Num(0), Num(6)}
      [] key = "isQuickMode" -> {Bool(FALSE)}
      [] key = "syncStatus" -> {Str("offline")}

BodyRecords ==
    UNION { { data \in [keys -> UNION { BodyOptions(k) : k \in keys }] :
                \A k \in keys : data[k] \in BodyOptions(k) } :
            keys \in { ks \in SUBSET BodyKeys : Cardinality(ks) <= MaxKeys } }

\* a request body: auditId 0 stands for a body without one
Body(auditId, data, isAutoSave) ==
    [auditId |-> auditId, wasteAuditData |-> data, isAutoSave |-> isAutoSave]

\* save/route.ts lines 56-66: the messages of one waste stream
StreamErrors(stream, index) ==
    LET n == NumToStr(index)
        cost == Member(stream, "annualCostEuros")
    IN  (IF Less(Member(stream, "estimatedWeeklyVolumeLitres"), Num(0))
         THEN <<"Waste stream " \o n \o ": Volume cannot be negative">> ELSE <<>>)
        \o (IF \/ Less(Member(stream, "contaminationLevel"), Num(1))
               \/ Less(Num(5), Member(stream, "contaminationLevel"))
            THEN <<"Waste stream " \o n \o ": Contamination level must be between 1 and 5">>
            ELSE <<>>)
        \o (IF Truthy(cost) /\ Less(cost, Num(0))
            THEN <<"Waste stream " \o n \o ": Annual cost cannot be negative">> ELSE <<>>)

RECURSIVE StreamsErrors(_, _)
StreamsErrors(streams, index) ==
    IF index > Len(streams) THEN <<>>
    ELSE StreamErrors(streams[index], index) \o StreamsErrors(streams, index + 1)

\* save/route.ts lines 41-79: the validation messages of a record
ValidationErrors(data, isAutoSave) ==
    LET infrastructure == Prop(data, "facilityInfrastructure")
        inventory == Member(infrastructure, "binInventory")
        assessments == Member(Prop(data, "wasteStreamsAssessment"), "assessments")
        organic == Prop(data, "organicWasteComposting")
        food == Member(organic, "foodWasteVolumeKgPerWeek")
        capacity == Member(organic, "compostingCapacityLitres")
    IN  (IF IsArr(inventory) /\ Len(inventory.arr) = 0 /\ ~isAutoSave
         THEN <<"At least one bin must be documented in facility infrastructure">>
         ELSE <<>>)
        \o (IF IsArr(assessments) THEN StreamsErrors(assessments.arr, 1) ELSE <<>>)
        \o (IF Truthy(food) /\ Less(food, Num(0))
            THEN <<"Food waste volume cannot be negative">> ELSE <<>>)
        \o (IF Truthy(capacity) /\ Less(capacity, Num(0))
            THEN <<"Composting capacity cannot be negative">> ELSE <<>>)

\* the JSON response of an endpoint; a validationErrors of no message stands
\* for the member left undefined
Response(status, success, errors) ==
    [status |-> status, success |-> success, validationErrors |-> errors]

\* a dataToSave in which the spread comes last: the payload's own syncStatus
\* survives
DataToSaveAsSent(data, syncStatus, now) ==
    IF "syncStatus" \in DOMAIN data
    THEN Assign(data, "lastSaved", Str(ToISOString(now)))
    ELSE Assign(Assign(data, "syncStatus", Str(syncStatus)), "lastSaved",
                Str(ToISOString(now)))

\* { ...body.wasteAuditData, syncStatus, lastSaved: new Date().toISOString() }
DataToSave(data, syncStatus, now) ==
    Assign(Assign(data, "syncStatus", Str(syncStatus)), "lastSaved", Str(ToISOString(now)))

\* a save endpoint in which every request is best effort: the messages never
\* stop the write
savePOSTBestEffort(db, body, now) ==
    IF body.auditId = 0 THEN
        [response |-> Response(400, FALSE, <<"Audit ID is required">>), db |-> db]
    ELSE IF IsUndefined(body.wasteAuditData) THEN
        [response |-> Response(400, FALSE, <<"Waste audit data is required">>), db |-> db]
    ELSE
        LET validationErrors == ValidationErrors(body.wasteAuditData, body.isAutoSave)
            saved == saveWasteAudit(db, body.auditId,
                         DataToSave(body.wasteAuditData, "synced", now), now, 0)
        IN  IF ~saved.ret.success
            THEN [response |-> Response(500, FALSE, saved.ret.validationErrors),
                  db |-> saved.db]
            ELSE [response |-> Response(200, TRUE, validationErrors), db |-> saved.db]

\* POST /api/waste-audit/save: the response and the database after
savePOST(db, body, now) ==
    IF body.auditId = 0 THEN
        [response |-> Response(400, FALSE, <<"Audit ID is required">>), db |-> db]
    ELSE IF IsUndefined(body.wasteAuditData) THEN
        [response |-> Response(400, FALSE, <<"Waste audit data is required">>), db |-> db]
    ELSE
        LET validationErrors == ValidationErrors(body.wasteAuditData, body.isAutoSave)
        IN  IF Len(validationErrors) > 0 /\ ~body.isAutoSave THEN
                [response |-> Response(400, FALSE, validationErrors), db |-> db]
            ELSE
                LET saved == saveWasteAudit(db, body.auditId,
                                 DataToSave(body.wasteAuditData, "synced", now), now, 0)
                IN  IF ~saved.ret.success
                    THEN [response |-> Response(500, FALSE, saved.ret.validationErrors),
                          db |-> saved.db]
                    ELSE [response |-> Response(200, TRUE, validationErrors),
                          db |-> saved.db]

\* POST /api/waste-audit/autosave: the response and the database after
autosavePOST(db, body, now) ==
    IF body.auditId = 0 \/ IsUndefined(body.wasteAuditData) THEN
        [response |-> Response(400, FALSE, <<>>), db |-> db]
    ELSE
        LET updated == updateWasteAudit(db, body.auditId,
                           DataToSave(body.wasteAuditData, "pending", now), now, 0)
        IN  IF ~updated.ret
            THEN [response |-> Response(500, FALSE, <<>>), db |-> updated.db]
            ELSE [response |-> Response(200, TRUE, <<>>), db |-> updated.db]

PostSave(body) ==
    \E r \in {savePOST(Database, body, clock)} :
        /\ RowCount(r.db.waste_data) <= MaxBodyRows
        /\ Stored(r.db)
        /\ last' = Call("POST save", body.auditId, body, r.response)
        /\ UNCHANGED <<nextAuditId, clock, concVars>>

PostAutosave(body) ==
    \E r \in {autosavePOST(Database, body, clock)} :
        /\ RowCount(r.db.waste_data) <= MaxBodyRows
        /\ Stored(r.db)
        /\ last' = Call("POST autosave", body.auditId, body, r.response)
        /\ UNCHANGED <<nextAuditId, clock, concVars>>

\* the bodies the callers post
Bodies ==
    { Body(auditId, data, isAutoSave) :
        auditId \in 0..MaxAuditId,
        data \in BodyRecords \cup {Undefined},
        isAutoSave \in BOOLEAN }

\* audit 1 is registered and has no waste audit yet
InitEndpoints ==
    /\ audits = {[id |-> 1]}
    /\ nextAuditId = 2
    /\ waste_data = [id \in AuditIds |-> <<>>]
    /\ images = {}
    /\ clock = 0
    /\ last = Call("init", 0, NoData, TRUE)
    /\ calls = [slot \in Slots |-> Idle]
    /\ commits = <<>>
    /\ before = waste_data

NextEndpoints ==
    \/ \E body \in Bodies : PostSave(body)
    \/ \E body \in Bodies : ~body.isAutoSave /\ PostAutosave(body)

SpecEndpoints == InitEndpoints /\ [][NextEndpoints]_vars

-----------------------------------------------------------------------------
(* Properties of the store                                                 *)

\* the item keys getWasteAudit decodes, lastSaved apart
ItemKeys == SectionNames \cup {"completedSections", "isQuickMode", "syncStatus"}

\* record.key of what getWasteAudit returned: undefined on null or a missing key
Field(record, key) ==
    IF record # Null /\ key \in DOMAIN record THEN record[key] ELSE Undefined

\* the keys of a returned record; none when it is null
KeysOf(record) == IF record = Null THEN {} ELSE DOMAIN record

\* C1: after a successful saveWasteAudit(id, r), getWasteAudit(id) returns a
\* record whose sections and metadata are exactly those of r, each with an
\* equal value, together with auditId and a lastSaved string
C1_RoundTrip ==
    (last.op = "save" /\ last.ret.success) =>
        LET r == last.data
            got == getWasteAudit(Database, last.id)
        IN  /\ got # Null
            /\ KeysOf(got) = (DOMAIN r \cap ItemKeys) \cup {"auditId", "lastSaved"}
            /\ \A k \in DOMAIN r \cap ItemKeys : got[k] = r[k]
            /\ got["auditId"] = Num(last.id)
            /\ IsStr(got["lastSaved"])

\* a save of a section succeeded and the record read back holds an equal section
C1_Witness ==
    /\ last.op = "save" /\ last.ret.success
    /\ Prop(last.data, "facilityInfrastructure") = FacilityOneBin
    /\ Field(getWasteAudit(Database, last.id), "facilityInfrastructure") = FacilityOneBin

\* C2: the waste_data table holds at most one row per (audit_id, item_key)
C2_AtMostOneRowPerKey ==
    \A id \in DOMAIN waste_data :
        \A i, j \in 1..Len(waste_data[id]) :
            waste_data[id][i].item_key = waste_data[id][j].item_key => i = j

C4_UpdateMerges ==
    [][ (last'.op = "update" /\ last'.ret)
        => \A k \in ItemKeys \ DOMAIN last'.data :
               Field(getWasteAudit(Database', last'.id), k)
                   = Field(getWasteAudit(Database, last'.id), k) ]_vars

\* an update of one key succeeded and the record still holds another key
C4_Witness ==
    /\ last.op = "update" /\ last.ret
    /\ DOMAIN last.data # {}
    /\ \E k \in ItemKeys \ DOMAIN last.data :
           ~IsUndefined(Field(getWasteAudit(Database, last.id), k))

\* a returned record without its lastSaved value
WithoutLastSaved(record) ==
    IF record = Null THEN Null
    ELSE [k \in DOMAIN record \ {"lastSaved"} |-> record[k]]

\* C5: a successful updateWasteAudit(id, p) applied right after the same
\* successful call leaves getWasteAudit(id), lastSaved apart, as the first
\* call left it
C5_UpdateIdempotent ==
    [][ ( /\ last.op = "update" /\ last.ret
          /\ last'.op = "update" /\ last'.ret
          /\ last'.id = last.id /\ last'.data = last.data )
        => WithoutLastSaved(getWasteAudit(Database', last'.id))
               = WithoutLastSaved(getWasteAudit(Database, last.id)) ]_vars

\* the same section was written twice by updates and is stored in two rows
C5_Witness ==
    /\ last.op = "update" /\ last.ret
    /\ "facilityInfrastructure" \in DOMAIN last.data
    /\ \E i, j \in 1..Len(waste_data[last.id]) :
           /\ i < j
           /\ waste_data[last.id][i].item_key = "facilityInfrastructure"
           /\ waste_data[last.id][j].item_key = "facilityInfrastructure"

\* C6: a saveWasteAudit that fails returns success false with one message in
\* validationErrors and leaves the waste_data rows of every audit as they
\* were before the call
C6_SaveAtomic ==
    [][ (last'.op = "save" /\ ~last'.ret.success)
        => /\ Len(last'.ret.validationErrors) = 1
           /\ waste_data' = waste_data ]_vars

\* a save failed on an audit that has rows, and the rows are still there
C6_Witness ==
    /\ last.op = "save" /\ ~last.ret.success
    /\ Len(waste_data[last.id]) > 0

\* the rows of the images table that belong to an audit
ImagesOf(db, auditId) == { i \in db.images : i.audit_id = auditId }

\* the waste_data table after a call has run alone on table
RunAlone(table, call) ==
    LET db == [audits |-> audits, waste_data |-> table, images |-> images]
    IN  IF call.op = "save"
        THEN saveWasteAudit(db, call.id, call.data, call.now, 0).db.waste_data
        ELSE updateWasteAudit(db, call.id, call.data, call.now, 0).db.waste_data

\* C7: when two calls, two saveWasteAudit or a saveWasteAudit and an
\* updateWasteAudit among them, were in flight at the same time and both have
\* ended, the rows of waste_data are those of running the two calls one after
\* the other in the order their transactions ended; after two saves of one
\* audit they are the rows of the save that committed last
C7_Serializable ==
    (Len(commits) = 2) =>
        LET first == calls[commits[1]]
            second == calls[commits[2]]
        IN  /\ waste_data = RunAlone(RunAlone(before, first), second)
            /\ ( /\ first.op = "save" /\ second.op = "save"
                 /\ first.id = second.id /\ second.ret )
               => waste_data[second.id] = RunAlone(before, second)[second.id]

\* two saves of different sections for one audit were issued before either
\* started, and both have committed
C7_Witness ==
    /\ Len(commits) = 2
    /\ \A slot \in Slots : calls[slot].op = "save" /\ calls[slot].ret /\ calls[slot].id = 1
    /\ calls[commits[1]].raced
    /\ SectionsOf(calls[1].data) # {}
    /\ SectionsOf(calls[2].data) # {}
    /\ calls[1].data # calls[2].data
    /\ before[1] # <<>>

C9_ExistsIffGet ==
    \A id \in AuditIds :
        /\ wasteAuditExists(Database, id) <=> (getWasteAudit(Database, id) # Null)
        /\ (getWasteAudit(Database, id) # Null) <=> (Len(waste_data[id]) >= 1)

\* a registered audit without rows, and an audit with rows, side by side
C9_Witness ==
    \E id, other \in AuditIds :
        /\ [id |-> id] \in audits
        /\ ~wasteAuditExists(Database, id) /\ getWasteAudit(Database, id) = Null
        /\ wasteAuditExists(Database, other) /\ getWasteAudit(Database, other) # Null

DocumentedKeys == ItemKeys \cup {"lastSaved"}

\* C11: every waste_data row written through saveWasteAudit or
\* updateWasteAudit, for every partial record the form and the endpoints
\* pass, has an item_key among the six section names and completedSections,
\* isQuickMode, syncStatus, lastSaved
C11_DocumentedItemKeys ==
    \A id \in DOMAIN waste_data :
        \A i \in 1..Len(waste_data[id]) :
            waste_data[id][i].item_key \in DocumentedKeys

\* the audit has a completedSections row whose text parseInt cannot read
CorruptCompletedSections(id) ==
    \E i \in 1..Len(waste_data[id]) :
        /\ waste_data[id][i].item_key = "completedSections"
        /\ ParseInt(waste_data[id][i].response) = NaN

\* C12: when the stored completedSections entry of an audit holds
\* non-numeric text, getWasteAudit fails instead of returning a record that
\* carries a degraded value
C12_CorruptionSurfaces ==
    \A id \in AuditIds :
        CorruptCompletedSections(id) => getWasteAudit(Database, id) = Null

\* a section row whose text JSON.parse rejects
Malformed(row) ==
    row.item_key \in SectionNames /\ ~JSONparse(row.response).ok

\* the database without the rows of an audit that satisfy Drop
WithoutRows(db, auditId, Drop(_)) ==
    [db EXCEPT !.waste_data[auditId] = SelectSeq(@, LAMBDA row : ~Drop(row))]

Undocumented(row) == row.item_key \notin DocumentedKeys

\* C14: rows whose item_key is outside the six section names and the four
\* scalar metadata names do not affect what getWasteAudit returns: no error
\* is raised, and the record is the one returned when those rows are absent
C14_UnknownKeysIgnored ==
    \A id \in AuditIds :
        (\E i \in 1..Len(waste_data[id]) : Undocumented(waste_data[id][i])) =>
            LET got == getWasteAudit(Database, id)
                clean == getWasteAudit(WithoutRows(Database, id, Undocumented), id)
            IN  /\ got # Null
                /\ \A k \in DocumentedKeys : Field(got, k) = Field(clean, k)
                /\ clean # Null => got = clean

\* an autosave has stored a row under the key auditId, and the record read
\* back holds the syncStatus stored with it and a numeric auditId
C14_Witness ==
    /\ last.op = "POST autosave" /\ last.ret.success
    /\ \E i \in 1..Len(waste_data[last.id]) :
           waste_data[last.id][i].item_key = "auditId"
    /\ Field(getWasteAudit(Database, last.id), "syncStatus") = Str("pending")
    /\ Field(getWasteAudit(Database, last.id), "auditId") = Num(last.id)

\* a number below zero
Negative(v) == IsNum(v) /\ v.num < 0

\* the waste streams of a record; none when it has no assessment
StreamsIn(data) ==
    LET assessments == Member(Prop(data, "wasteStreamsAssessment"), "assessments")
    IN  IF IsArr(assessments) THEN assessments.arr ELSE <<>>

\* the messages the numeric constraints ask for: one per violated constraint
NumericMessages(data) ==
    LET streams == StreamsIn(data)
        organic == Prop(data, "organicWasteComposting")
    IN  { "Waste stream " \o NumToStr(i) \o ": Volume cannot be negative" :
            i \in { j \in 1..Len(streams) :
                      Negative(Member(streams[j], "estimatedWeeklyVolumeLitres")) } }
        \cup { "Waste stream " \o NumToStr(i) \o ": Contamination level must be between 1 and 5" :
            i \in { j \in 1..Len(streams) :
                      /\ IsNum(Member(streams[j], "contaminationLevel"))
                      /\ Member(streams[j], "contaminationLevel").num \notin 1..5 } }
        \cup { "Waste stream " \o NumToStr(i) \o ": Annual cost cannot be negative" :
            i \in { j \in 1..Len(streams) : Negative(Member(streams[j], "annualCostEuros")) } }
        \cup (IF Negative(Member(organic, "foodWasteVolumeKgPerWeek"))
              THEN {"Food waste volume cannot be negative"} ELSE {})
        \cup (IF Negative(Member(organic, "compostingCapacityLitres"))
              THEN {"Composting capacity cannot be negative"} ELSE {})

\* the messages of a response
MessagesOf(response) ==
    { response.validationErrors[i] : i \in 1..Len(response.validationErrors) }

-----------------------------------------------------------------------------
(* Statistics over the stored audits                                       *)

\* CAST(response AS INTEGER): the integer of a leading numeral, 0 otherwise
CastInteger(text) ==
    IF text # <<>> /\ IsNumeral(Head(text)) THEN NumeralValue(Head(text)) ELSE 0

RECURSIVE GCD(_, _)
GCD(a, b) == IF b = 0 THEN a ELSE GCD(b, a % b)

\* the floating-point quotient n / d of two integers, d > 0, n >= 0, kept
\* exact as a fraction in lowest terms
Quotient(n, d) == [num |-> n \div GCD(n, d), den |-> d \div GCD(n, d)]

\* SELECT ... FROM waste_data WHERE item_key = 'completedSections': the rows
\* of all audits, one after the other
RECURSIVE CompletionRows(_, _)
CompletionRows(table, ids) ==
    IF ids = {} THEN <<>>
    ELSE LET id == CHOOSE i \in ids : \A j \in ids : i <= j
         IN  SelectSeq(table[id], LAMBDA row : row.item_key = "completedSections")
                 \o CompletionRows(table, ids \ {id})

RECURSIVE SumCast(_)
SumCast(rows) ==
    IF rows = <<>> THEN 0 ELSE CastInteger(Head(rows).response) + SumCast(Tail(rows))

\* getWasteAuditStats(): the four figures
getWasteAuditStats(db) ==
    LET rows == CompletionRows(db.waste_data, DOMAIN db.waste_data)
    IN  [ totalAudits |->
              Cardinality({ id \in DOMAIN db.waste_data : Len(db.waste_data[id]) > 0 }),
          completedAudits |->
              Cardinality({ rows[i].audit_id :
                              i \in { j \in 1..Len(rows) : CastInteger(rows[j].response) = 6 } }),
          averageCompletion |->
              IF Len(rows) = 0 \/ SumCast(rows) = 0 THEN Quotient(0, 1)
              ELSE Quotient(SumCast(rows), Len(rows)),
          auditsWithPhotos |-> Cardinality({ i.audit_id : i \in db.images }) ]

\* the partial records that carry the progress of a form: no key, or
\* completedSections at the start of the form, at its end, or null as a JSON
\* body can put it
ProgressRecords ==
    {NoData} \cup { [k \in {"completedSections"} |-> v] : v \in {Num(0), Num(6), Null} }

\* audits.created_at, DEFAULT CURRENT_TIMESTAMP: audits are registered one
\* after the other, a second apart
CreatedAt(audit) == "2024-01-15 09:00:0" \o NumToStr(audit.id)

\* audits.centre_name: the centre an audit is registered for
Centres == <<"Galway", "Sligo">>
CentreName(audit) == Centres[((audit.id - 1) % Len(Centres)) + 1]

\* a column of a LEFT JOIN on waste_data: the response of each row of the
\* audit with the item key, or one NULL when there is none
Joined(db, auditId, key) ==
    LET rows == SelectSeq(RecordsOf(db, auditId), LAMBDA row : row.item_key = key)
    IN  IF rows = <<>> THEN <<Null>>
        ELSE [i \in 1..Len(rows) |-> [text |-> rows[i].response]]

\* a column value in a condition: NULL and the empty text are falsy
ColumnTruthy(column) == column # Null /\ Concat(column.text) # ""

\* results.map(row => ...): the summary of one joined row
Summary(audit, completed, sync, saved) ==
    [ auditId |-> audit.id,
      centreName |-> CentreName(audit),
      completedSections |->
          IF ColumnTruthy(completed) THEN ParseInt(completed.text) ELSE Num(0),
      lastModified |->
          IF ColumnTruthy(saved) THEN Concat(saved.text) ELSE CreatedAt(audit),
      syncStatus |->
          IF ColumnTruthy(sync) THEN Concat(sync.text) ELSE "offline" ]

\* the joined rows of one audit, as summaries: a row for every combination
\* of a completedSections row, a syncStatus row and a lastSaved row
SummariesOf(db, audit) ==
    LET completed == Joined(db, audit.id, "completedSections")
        sync == Joined(db, audit.id, "syncStatus")
        saved == Joined(db, audit.id, "lastSaved")
    IN  [k \in 1..(Len(completed) * Len(sync) * Len(saved)) |->
            Summary(audit,
                    completed[((k - 1) \div (Len(sync) * Len(saved))) + 1],
                    sync[(((k - 1) \div Len(saved)) % Len(sync)) + 1],
                    saved[((k - 1) % Len(saved)) + 1])]

\* the joined rows of the selected audits, the audit created last first
SummariesOfAll(db, selected) ==
    LET F[id \in 0..MaxAuditId] ==
            IF id = 0 THEN <<>>
            ELSE (IF [id |-> id] \in selected THEN SummariesOf(db, [id |-> id]) ELSE <<>>)
                 \o F[id - 1]
    IN  F[MaxAuditId]

\* getAllWasteAudits(): the summaries the query returns, one per joined row
getAllWasteAudits(db) == SummariesOfAll(db, db.audits)

\* getWasteAuditsByCenter(centerName): the same with WHERE a.centre_name = ?
getWasteAuditsByCenter(db, centerName) ==
    SummariesOfAll(db, { a \in db.audits : CentreName(a) = centerName })

\* the lists are read: SELECT statements only
GetAllWasteAudits ==
    /\ last' = Call("list", 0, NoData, TRUE)
    /\ UNCHANGED <<audits, nextAuditId, waste_data, images, clock, concVars>>

GetWasteAuditsByCenter(centerName) ==
    /\ last' = Call("list " \o centerName, 0, NoData, TRUE)
    /\ UNCHANGED <<audits, nextAuditId, waste_data, images, clock, concVars>>

\* the statistics are read: SELECT statements only
GetWasteAuditStats ==
    /\ last' = Call("stats", 0, NoData, TRUE)
    /\ UNCHANGED <<audits, nextAuditId, waste_data, images, clock, concVars>>

\* every audit id is registered and no waste audit is stored yet
InitStats ==
    /\ audits = { [id |-> id] : id \in AuditIds }
    /\ nextAuditId = MaxAuditId + 1
    /\ waste_data = [id \in AuditIds |-> <<>>]
    /\ images = {}
    /\ clock = 0
    /\ last = Call("init", 0, NoData, TRUE)
    /\ calls = [slot \in Slots |-> Idle]
    /\ commits = <<>>
    /\ before = waste_data

NextStats ==
    \/ \E auditId \in AuditIds, data \in ProgressRecords : SaveWasteAudit(auditId, data, 0)
    \/ \E auditId \in AuditIds, updates \in ProgressRecords : UpdateWasteAudit(auditId, updates, 0)
    \/ \E auditId \in AuditIds : InsertImage(auditId)
    \/ GetWasteAuditStats
    \/ GetAllWasteAudits
    \/ \E i \in 1..Len(Centres) : GetWasteAuditsByCenter(Centres[i])

SpecStats == InitStats /\ [][NextStats]_vars

\* the audits that have at least one stored entry
AuditsStored == { id \in AuditIds : Len(waste_data[id]) > 0 }

\* the completedSections value of an audit, as getWasteAudit returns it
CompletionOf(id) == Field(getWasteAudit(Database, id), "completedSections")

RECURSIVE SumCompletion(_)
SumCompletion(ids) ==
    IF ids = {} THEN 0
    ELSE LET id == CHOOSE i \in ids : TRUE
         IN  CompletionOf(id).num + SumCompletion(ids \ {id})

\* C16: getWasteAuditStats returns totalAudits = the number of audit ids with
\* at least one entry, completedAudits = the number of those whose
\* completedSections value is exactly 6, and averageCompletion = the mean of
\* the completedSections values present, 0 when there is none
C16_StatsOfStoredValues ==
    LET stats == getWasteAuditStats(Database)
        present == { id \in AuditsStored : IsNum(CompletionOf(id)) }
    IN  /\ stats.totalAudits = Cardinality(AuditsStored)
        /\ stats.completedAudits =
               Cardinality({ id \in present : CompletionOf(id) = Num(6) })
        /\ stats.averageCompletion =
               IF present = {} THEN Quotient(0, 1)
               ELSE Quotient(SumCompletion(present), Cardinality(present))

\* the stored texts of an item key of an audit
EntriesOf(auditId, key) ==
    { waste_data[auditId][i].response :
        i \in { j \in 1..Len(waste_data[auditId]) : waste_data[auditId][j].item_key = key } }

\* every summary returned by the two list functions
SummariesReturned ==
    LET ElementsOf(list) == { list[i] : i \in 1..Len(list) }
    IN  ElementsOf(getAllWasteAudits(Database))
            \cup UNION { ElementsOf(getWasteAuditsByCenter(Database, Centres[i])) :
                            i \in 1..Len(Centres) }

\* C17: in every summary row of getAllWasteAudits and getWasteAuditsByCenter,
\* completedSections is the integer parsed from the audit's completedSections
\* entry, and 0 when the entry is absent or unparsable; lastModified is the
\* lastSaved entry when present and created_at otherwise; syncStatus is the
\* syncStatus entry when present and 'offline' otherwise
C17_SummaryDefaults ==
    \A s \in SummariesReturned :
        LET completed == EntriesOf(s.auditId, "completedSections")
            saved == EntriesOf(s.auditId, "lastSaved")
            sync == EntriesOf(s.auditId, "syncStatus")
        IN  /\ s.completedSections \in
                   { ParseInt(text) : text \in { t \in completed : ParseInt(t) # NaN } }
                   \cup (IF completed = {} \/ \E t \in completed : ParseInt(t) = NaN
                         THEN {Num(0)} ELSE {})
            /\ s.lastModified \in
                   IF saved = {} THEN {CreatedAt([id |-> s.auditId])}
                   ELSE { Concat(text) : text \in saved }
            /\ s.syncStatus \in
                   IF sync = {} THEN {"offline"} ELSE { Concat(text) : text \in sync }

-----------------------------------------------------------------------------
(* The store operations when the storage layer fails                       *)

\* try { value } catch { return fallback }: the SELECT of a read operation
\* raises when fault is set
Caught(fault, value, fallback) == IF fault # 0 THEN fallback ELSE value

\* what getWasteAuditStats returns from its catch
StatsZero ==
    [totalAudits |-> 0, completedAudits |-> 0,
     averageCompletion |-> Quotient(0, 1), auditsWithPhotos |-> 0]

\* a store call, the statement made to fail (0 for none) and the result
FaultyCall(op, id, fault, ret) == [op |-> op, id |-> id, fault |-> fault, ret |-> ret]

\* the statements a write may see fail: those of its body, and COMMIT
FaultsOf(stmts) == 0..(Len(stmts) + 1)

SaveUnderFault(auditId, data) ==
    \E fault \in FaultsOf(SaveStatements(auditId, data, clock)) :
        \E r \in {saveWasteAudit(Database, auditId, data, clock, fault)} :
            /\ RowCount(r.db.waste_data) <= MaxRows
            /\ Stored(r.db)
            /\ last' = FaultyCall("save", auditId, fault, r.ret)
            /\ UNCHANGED <<nextAuditId, clock, concVars>>

UpdateUnderFault(auditId, updates) ==
    \E fault \in FaultsOf(UpdateStatements(auditId, updates, clock)) :
        \E r \in {updateWasteAudit(Database, auditId, updates, clock, fault)} :
            /\ RowCount(r.db.waste_data) <= MaxRows
            /\ Stored(r.db)
            /\ last' = FaultyCall("update", auditId, fault, r.ret)
            /\ UNCHANGED <<nextAuditId, clock, concVars>>

DeleteUnderFault(auditId) ==
    \E fault \in FaultsOf(DeleteStatements(auditId)) :
        \E r \in {deleteWasteAudit(Database, auditId, fault)} :
            /\ Stored(r.db)
            /\ last' = FaultyCall("delete", auditId, fault, r.ret)
            /\ UNCHANGED <<nextAuditId, clock, concVars>>

\* the result of a read operation whose SELECT raises when fault is set
ReadResult(op, auditId, fault) ==
    CASE op = "get" -> Caught(fault, getWasteAudit(Database, auditId), Null)
      [] op = "exists" -> Caught(fault, wasteAuditExists(Database, auditId), FALSE)
      [] op = "list" -> Caught(fault, getAllWasteAudits(Database), <<>>)
      [] op = "listByCenter" ->
             Caught(fault, getWasteAuditsByCenter(Database, CentreName([id |-> auditId])), <<>>)
      [] op = "stats" -> Caught(fault, getWasteAuditStats(Database), StatsZero)

ReadOps == {"get", "exists", "list", "listByCenter", "stats"}

ReadUnderFault(op, auditId) ==
    \E fault \in {0, 1} :
        /\ last' = FaultyCall(op, auditId, fault, ReadResult(op, auditId, fault))
        /\ UNCHANGED <<audits, nextAuditId, waste_data, images, clock, concVars>>

\* audit 1 is registered, has a photo and no waste audit yet
InitFaults ==
    /\ audits = {[id |-> 1]}
    /\ nextAuditId = 2
    /\ waste_data = [id \in AuditIds |-> <<>>]
    /\ images = {[audit_id |-> 1]}
    /\ clock = 0
    /\ last = FaultyCall("init", 0, 0, TRUE)
    /\ calls = [slot \in Slots |-> Idle]
    /\ commits = <<>>
    /\ before = waste_data

NextFaults ==
    \/ \E auditId \in AuditIds, data \in Partials : SaveUnderFault(auditId, data)
    \/ \E auditId \in AuditIds, updates \in Partials : UpdateUnderFault(auditId, updates)
    \/ \E auditId \in AuditIds : DeleteUnderFault(auditId)
    \/ \E op \in ReadOps, auditId \in AuditIds : ReadUnderFault(op, auditId)

SpecFaults == InitFaults /\ [][NextFaults]_vars

\* C18: when the storage operation fails, saveWasteAudit returns success
\* false, updateWasteAudit and deleteWasteAudit return false, and the reads
\* do not raise: getWasteAudit returns null, the list functions an empty
\* list, wasteAuditExists false and getWasteAuditStats all zeros
C18_FaultResults ==
    (last.fault # 0) =>
        CASE last.op = "save" -> ~last.ret.success
          [] last.op \in {"update", "delete", "exists"} -> last.ret = FALSE
          [] last.op = "get" -> last.ret = Null
          [] last.op \in {"list", "listByCenter"} -> last.ret = <<>>
          [] last.op = "stats" ->
                 /\ last.ret.totalAudits = 0
                 /\ last.ret.completedAudits = 0
                 /\ last.ret.averageCompletion = Quotient(0, 1)
                 /\ last.ret.auditsWithPhotos = 0

\* an update of an audit that has rows failed at its last statement: it
\* returned false
C18_Witness ==
    /\ last.op = "update" /\ last.fault > 1 /\ last.ret = FALSE
    /\ Len(waste_data[last.id]) > 0

-----------------------------------------------------------------------------
(* The metrics of the calculate endpoint                                   *)

MaxStreams == 2      \* waste streams in an assessed record

\* Math.round(n / d) for d > 0: the nearest integer, a half going up
Round(n, d) == (2 * n + d) \div (2 * d)

\* Math.round(x * 100) / 100 for x = n / d: x to two decimals
Round2(n, d) == Quotient(Round(100 * n, d), 100)

\* a waste stream of a given type
StreamOfType(wasteStream, volume, level, cost) ==
    Obj(<< <<"wasteStream", Str(wasteStream)>>,
           <<"estimatedWeeklyVolumeLitres", Num(volume)>>,
           <<"contaminationLevel", Num(level)>> >>
        \o Optional("annualCostEuros", cost))

\* stream.annualCostEuros when truthy, stream.estimatedWeeklyVolumeLitres || 0
CostOf(stream) ==
    LET cost == Member(stream, "annualCostEuros")
    IN  IF Truthy(cost) THEN cost.num ELSE 0

VolumeOf(stream) ==
    LET volume == Member(stream, "estimatedWeeklyVolumeLitres")
    IN  IF Truthy(volume) THEN volume.num ELSE 0

\* stream.wasteStream === 'dry_recyclables' || stream.wasteStream === 'organic'
Recyclable(stream) ==
    Member(stream, "wasteStream") \in {Str("dry_recyclables"), Str("organic")}

\* a contamination test that takes level 3 for an issue
ContaminationIssueFrom3(stream) == ~Less(Member(stream, "contaminationLevel"), Num(3))

\* stream.contaminationLevel > 3
ContaminationIssue(stream) == Less(Num(3), Member(stream, "contaminationLevel"))

\* the four accumulators after the forEach over the first i streams
RECURSIVE Accumulate(_, _)
Accumulate(streams, i) ==
    IF i = 0 THEN
        [totalAnnualCost |-> 0, totalWeeklyVolume |-> 0,
         recyclableVolume |-> 0, contaminationIssues |-> 0]
    ELSE
        LET acc == Accumulate(streams, i - 1)
            stream == streams[i]
        IN  [totalAnnualCost |-> acc.totalAnnualCost + CostOf(stream),
             totalWeeklyVolume |-> acc.totalWeeklyVolume + VolumeOf(stream),
             recyclableVolume |->
                 acc.recyclableVolume + (IF Recyclable(stream) THEN VolumeOf(stream) ELSE 0),
             contaminationIssues |->
                 acc.contaminationIssues + (IF ContaminationIssue(stream) THEN 1 ELSE 0)]

\* calculateWasteMetrics(data, userCount)
calculateWasteMetrics(data, userCount) ==
    LET assessments == Member(Prop(data, "wasteStreamsAssessment"), "assessments")
        acc == IF IsArr(assessments)
               THEN Accumulate(assessments.arr, Len(assessments.arr))
               ELSE Accumulate(<<>>, 0)
    IN  [ estimatedAnnualWasteCost |-> acc.totalAnnualCost,
          potentialSavingsFromContaminationReduction |->
              IF acc.contaminationIssues > 0
              THEN Quotient(15 * acc.totalAnnualCost, 100) ELSE Quotient(0, 1),
          recyclingRateEstimate |->
              IF acc.totalWeeklyVolume > 0
              THEN Round2(100 * acc.recyclableVolume, acc.totalWeeklyVolume)
              ELSE Quotient(0, 1),
          weeklyWastePerUser |->
              IF userCount > 0
              THEN Round2(acc.totalWeeklyVolume, 2 * userCount) ELSE Quotient(0, 1),
          carbonFootprintEstimate |-> Round(13 * acc.totalWeeklyVolume, 1) ]

\* POST /api/waste-audit/calculate: the status and the calculations of the
\* response; its other members are computed from the record alone
calculatePOST(body) ==
    IF IsUndefined(body.wasteAuditData) THEN [status |-> 400]
    ELSE [ status |-> 200,
           calculations |->
               calculateWasteMetrics(body.wasteAuditData,
                   IF Truthy(body.userCount) THEN body.userCount.num ELSE 100) ]

\* the streams a record may assess
AssessedStreams ==
    { StreamOfType(wasteStream, volume, level, cost) :
        wasteStream \in {"dry_recyclables", "organic", "general"},
        volume \in {0, 5, 500},
        level \in {2, 3, 4},
        cost \in {Undefined, Num(1000)} }

\* the records whose metrics are computed: up to MaxStreams streams
AssessedRecords ==
    { [k \in {"wasteStreamsAssessment"} |-> Obj(<< <<"assessments", Arr(streams)>> >>)] :
        streams \in UNION { [1..n -> AssessedStreams] : n \in 0..MaxStreams } }

\* the user counts a caller may give
UserCounts == {-1, 0, 50}

\* the arguments of a computation of insights: a record, if any, and a user
\* count, if any
CalculateBodies ==
    { [wasteAuditData |-> data, userCount |-> userCount] :
        data \in AssessedRecords \cup {Undefined},
        userCount \in {Undefined} \cup { Num(n) : n \in UserCounts } }

\* the metrics function is applied to the record and the user count
CalculateWasteMetrics ==
    /\ last.op = "input"
    /\ ~IsUndefined(last.data.wasteAuditData)
    /\ IsNum(last.data.userCount)
    /\ last' = Call("metrics", last.data.userCount.num, last.data.wasteAuditData,
                    calculateWasteMetrics(last.data.wasteAuditData,
                                          last.data.userCount.num))
    /\ UNCHANGED <<audits, nextAuditId, waste_data, images, clock, concVars>>

\* the arguments are posted to the calculate endpoint as its body
PostCalculate ==
    /\ last.op = "input"
    /\ last' = Call("POST calculate", 0, last.data, calculatePOST(last.data))
    /\ UNCHANGED <<audits, nextAuditId, waste_data, images, clock, concVars>>

\* the metrics depend on their arguments only: a behaviour draws them and
\* computes once
InitMetrics ==
    /\ audits = {}
    /\ nextAuditId = 1
    /\ waste_data = [id \in AuditIds |-> <<>>]
    /\ images = {}
    /\ clock = 0
    /\ last \in { Call("input", 0, body, TRUE) : body \in CalculateBodies }
    /\ calls = [slot \in Slots |-> Idle]
    /\ commits = <<>>
    /\ before = waste_data

NextMetrics ==
    \/ CalculateWasteMetrics
    \/ PostCalculate

SpecMetrics == InitMetrics /\ [][NextMetrics]_vars

\* the sum of F over the streams
SumOver(streams, F(_)) ==
    LET S[i \in 0..Len(streams)] == IF i = 0 THEN 0 ELSE S[i - 1] + F(streams[i])
    IN  S[Len(streams)]

VolumeIn(stream) == Member(stream, "estimatedWeeklyVolumeLitres").num

RecyclableVolumeIn(stream) ==
    IF Member(stream, "wasteStream").str \in {"dry_recyclables", "organic"}
    THEN VolumeIn(stream) ELSE 0

CostIn(stream) ==
    IF IsNum(Member(stream, "annualCostEuros"))
    THEN Member(stream, "annualCostEuros").num ELSE 0

\* value is x = n / d given to two decimals: a whole number of hundredths at
\* most half a hundredth away from x
ToTwoDecimals(value, n, d) ==
    /\ 100 % value.den = 0
    /\ LET h == value.num * (100 \div value.den)
       IN  /\ 2 * (h * d - 100 * n) <= d
           /\ 2 * (100 * n - h * d) <= d

\* the record of the scenario: one dry-recyclables stream of 500 L, level 2,
\* annual cost 1000
ScenarioRecord ==
    [k \in {"wasteStreamsAssessment"} |->
        Obj(<< <<"assessments",
                 Arr(<<StreamOfType("dry_recyclables", 500, 2, Num(1000))>>)>> >>)]

\* C19: calculateWasteMetrics returns recyclingRateEstimate = the weekly
\* volume of the dry-recyclables and organic streams over the weekly volume
\* of all streams, times 100, to two decimals, and 0 when the total volume is
\* 0; potentialSavingsFromContaminationReduction = 15% of the summed annual
\* cost when a stream has contamination level above 3, and 0 otherwise; for
\* the scenario record and userCount 50 it returns rate 100, savings 0 and
\* weeklyWastePerUser 5
C19_Metrics ==
    (last.op = "metrics") =>
        LET streams == StreamsIn(last.data)
            total == SumOver(streams, VolumeIn)
            recyclable == SumOver(streams, RecyclableVolumeIn)
            cost == SumOver(streams, CostIn)
            got == last.ret
        IN  /\ IF total = 0 THEN got.recyclingRateEstimate = Quotient(0, 1)
               ELSE ToTwoDecimals(got.recyclingRateEstimate, 100 * recyclable, total)
            /\ got.potentialSavingsFromContaminationReduction =
                   IF \E i \in 1..Len(streams) :
                          Member(streams[i], "contaminationLevel").num > 3
                   THEN Quotient(15 * cost, 100) ELSE Quotient(0, 1)
            /\ (last.data = ScenarioRecord /\ last.id = 50) =>
                   /\ got.recyclingRateEstimate = Quotient(100, 1)
                   /\ got.potentialSavingsFromContaminationReduction = Quotient(0, 1)
                   /\ got.weeklyWastePerUser = Quotient(5, 1)

\* the metrics of a record with a general stream of 500 L at level 4 costing
\* 1000 and an organic stream of 5 L at level 3: rate 0.99, savings 150
C19_Witness ==
    /\ last.op = "metrics"
    /\ StreamsIn(last.data) =
           << StreamOfType("general", 500, 4, Num(1000)),
              StreamOfType("organic", 5, 3, Undefined) >>
    /\ last.ret.recyclingRateEstimate = Quotient(99, 100)
    /\ last.ret.potentialSavingsFromContaminationReduction = Quotient(150, 1)

\* C20: whenever insights are computed with a userCount that is 0 or
\* negative, weeklyWastePerUser is 0, in the metrics function and in the
\* calculate endpoint that hands the caller's userCount to it
C20_NoUsersNoWastePerUser ==
    /\ (last.op = "metrics" /\ last.id <= 0)
           => last.ret.weeklyWastePerUser = Quotient(0, 1)
    /\ ( /\ last.op = "POST calculate"
         /\ last.ret.status = 200
         /\ IsNum(last.data.userCount)
         /\ last.data.userCount.num <= 0 )
           => last.ret.calculations.weeklyWastePerUser = Quotient(0, 1)

-----------------------------------------------------------------------------
(* The insights of the calculate endpoint                                  *)

MaxBins == 2         \* bins in the bin inventory of an assessed record

\* v || fallback
OrElse(v, fallback) == IF Truthy(v) THEN v ELSE fallback

\* the elements of an array
Elements(v) == IF IsArr(v) THEN v.arr ELSE <<>>

\* a quick win: its id and its priority (title, description, the estimates,
\* impact level and category are fixed texts and numbers per id)
QuickWin(id, priority) == [id |-> id, priority |-> priority]

\* data.facilityInfrastructure?.binInventory || []
BinInventoryOf(data) ==
    Elements(OrElse(Member(Prop(data, "facilityInfrastructure"), "binInventory"),
                    Arr(<<>>)))

\* binInventory.some(bin => bin.binType === 'dry_recyclables'), with the
\* variant that accepts a bin of any type
HasRecyclingBinsAnyType(binInventory) == Len(binInventory) > 0

HasRecyclingBins(binInventory) ==
    \E i \in 1..Len(binInventory) :
        Member(binInventory[i], "binType") = Str("dry_recyclables")

\* bin.signagePresent && bin.signageQuality < 3
PoorSignage(bin) ==
    /\ Truthy(Member(bin, "signagePresent"))
    /\ Less(Member(bin, "signageQuality"), Num(3))

\* data.wasteStreamsAssessment?.assessments?.filter(...) || []
AssessmentsOf(data) ==
    Elements(Member(Prop(data, "wasteStreamsAssessment"), "assessments"))

\* stream.contaminationLevel > 3
HighContamination(stream) == Less(Num(3), Member(stream, "contaminationLevel"))

\* !data.behavioralTraining?.wasteChampionAppointed
NoChampion(data) ==
    ~Truthy(Member(Prop(data, "behavioralTraining"), "wasteChampionAppointed"))

\* data.organicWasteComposting?.kitchenPresent &&
\* data.organicWasteComposting.compostingSystem === 'none'
KitchenWithoutComposting(data) ==
    /\ Truthy(Member(Prop(data, "organicWasteComposting"), "kitchenPresent"))
    /\ Member(Prop(data, "organicWasteComposting"), "compostingSystem") = Str("none")

\* the ids of the quick wins in the order of their declaration
QuickWinIds ==
    <<"add-recycling-bins", "improve-signage", "contamination-training",
      "appoint-champion", "start-composting">>

\* the condition under which the quick win of an id is pushed
QuickWinCondition(data, id) ==
    CASE id = "add-recycling-bins" -> ~HasRecyclingBins(BinInventoryOf(data))
      [] id = "improve-signage" ->
            \E i \in 1..Len(BinInventoryOf(data)) : PoorSignage(BinInventoryOf(data)[i])
      [] id = "contamination-training" ->
            \E i \in 1..Len(AssessmentsOf(data)) : HighContamination(AssessmentsOf(data)[i])
      [] id = "appoint-champion" -> NoChampion(data)
      [] id = "start-composting" -> KitchenWithoutComposting(data)

\* the pushes of the first k declarations: priority: priority++ gives each
\* pushed quick win the number of quick wins pushed so far, with the variant
\* that numbers a quick win by its place among the declarations
RECURSIVE PushedFixedPriorities(_, _)
PushedFixedPriorities(data, k) ==
    IF k = 0 THEN <<>>
    ELSE LET sofar == PushedFixedPriorities(data, k - 1)
         IN  IF QuickWinCondition(data, QuickWinIds[k])
             THEN Append(sofar, QuickWin(QuickWinIds[k], k))
             ELSE sofar

RECURSIVE Pushed(_, _)
Pushed(data, k) ==
    IF k = 0 THEN <<>>
    ELSE LET sofar == Pushed(data, k - 1)
         IN  IF QuickWinCondition(data, QuickWinIds[k])
             THEN Append(sofar, QuickWin(QuickWinIds[k], Len(sofar) + 1))
             ELSE sofar

\* quickWins.sort((a, b) => a.priority - b.priority): a stable insertion sort
RECURSIVE SortByPriority(_)
SortByPriority(wins) ==
    IF wins = <<>> THEN <<>>
    ELSE LET rest == SortByPriority(SubSeq(wins, 1, Len(wins) - 1))
             x == wins[Len(wins)]
             k == Cardinality({ i \in 1..Len(rest) : rest[i].priority <= x.priority })
         IN  SubSeq(rest, 1, k) \o <<x>> \o SubSeq(rest, k + 1, Len(rest))

\* seq.slice(0, n)
Slice(seq, n) == SubSeq(seq, 1, IF Len(seq) < n THEN Len(seq) ELSE n)

generateQuickWins(data) == Slice(SortByPriority(Pushed(data, Len(QuickWinIds))), 5)

\* the messages of the compliance alerts
HazardousAlert == "Hazardous waste detected but no WEEE collection arrangement documented"
LargeFacilityAlert == "Large facility (>1000L/week) should consider organic waste separation"

\* assessments.reduce((sum, stream) => sum + (stream.estimatedWeeklyVolumeLitres || 0), 0)
RECURSIVE TotalVolume(_)
TotalVolume(streams) ==
    IF streams = <<>> THEN 0
    ELSE TotalVolume(SubSeq(streams, 1, Len(streams) - 1))
         + OrElse(Member(streams[Len(streams)], "estimatedWeeklyVolumeLitres"), Num(0)).num

\* !data.specialWasteManagement?.weeeCollection: an object is truthy whatever
\* its members
NoWeeeCollection(data) ==
    ~Truthy(Member(Prop(data, "specialWasteManagement"), "weeeCollection"))

generateComplianceAlerts(data) ==
    LET streams == AssessmentsOf(data)
        hasHazardous == \E i \in 1..Len(streams) :
                            Member(streams[i], "wasteStream") = Str("hazardous")
        totalVolume == TotalVolume(streams)
    IN  (IF hasHazardous /\ NoWeeeCollection(data) THEN <<HazardousAlert>> ELSE <<>>)
        \o (IF /\ totalVolume > 1000
               /\ Member(Prop(data, "organicWasteComposting"), "compostingSystem")
                      = Str("none")
            THEN <<LargeFacilityAlert>> ELSE <<>>)

\* the measures of a wastePreventionMeasures section that are scored
PreventionMeasures ==
    <<"procurementPolicy", "reusableCupsBottles", "waterFountainsRefillStations",
      "paperlessCommunication", "donationSystem", "repairCafe", "bulkBuying",
      "eliminateSingleUse">>

\* the points of the level of a prevention measure, with the variant that
\* counts the levels 0, 1, 3, 4
MeasurePointsUneven(value) ==
    CASE value = Str("full") -> 4
      [] value = Str("partial") -> 3
      [] value = Str("planned") -> 1
      [] OTHER -> 0

MeasurePoints(value) ==
    CASE value = Str("full") -> 4
      [] value = Str("partial") -> 2
      [] value = Str("planned") -> 1
      [] OTHER -> 0

\* the points of the first k measures of a section
RECURSIVE MeasureScore(_, _)
MeasureScore(prevention, k) ==
    IF k = 0 THEN 0
    ELSE MeasureScore(prevention, k - 1)
         + MeasurePoints(Member(prevention, PreventionMeasures[k]))

\* (score / (measures.length * 4)) * 100, as an exact fraction; 0 for a falsy
\* section
calculatePreventionScore(prevention) ==
    IF ~Truthy(prevention) THEN Quotient(0, 1)
    ELSE Quotient(100 * MeasureScore(prevention, Len(PreventionMeasures)),
                  Len(PreventionMeasures) * 4)

\* Math.min(a, b)
Min(a, b) == IF a < b THEN a ELSE b

\* the points of the infrastructure: 2 per bin up to 10, and 10 for a
\* dry_recyclables bin
InfrastructurePoints(data) ==
    LET inventory == Elements(Member(Prop(data, "facilityInfrastructure"), "binInventory"))
        binCount == Len(inventory)
        recyclingBins == Cardinality({ i \in 1..Len(inventory) :
                             Member(inventory[i], "binType") = Str("dry_recyclables") })
    IN  Min(binCount * 2, 10) + (IF recyclingBins > 0 THEN 10 ELSE 0)

\* the points of the training section and what it adds to maxScore, with the
\* variant that counts the section in maxScore whether present or not
TrainingPoints(data) ==
    LET training == Prop(data, "behavioralTraining")
    IN  IF ~Truthy(training) THEN 0
        ELSE (IF Truthy(Member(training, "wasteChampionAppointed")) THEN 10 ELSE 0)
             + (IF Truthy(Member(training, "userEducationMaterialsDisplayed")) THEN 10 ELSE 0)
             + (IF Member(training, "wasteMonitoringRecordsKept") # Str("never") THEN 5 ELSE 0)

TrainingMaxAlways(data) == 25

TrainingMax(data) == IF Truthy(Prop(data, "behavioralTraining")) THEN 25 ELSE 0

\* data.wasteStreamsAssessment?.assessments || []
ScoredStreams(data) ==
    Elements(OrElse(Member(Prop(data, "wasteStreamsAssessment"), "assessments"), Arr(<<>>)))

\* streams.reduce((sum, s) => sum + (s.contaminationLevel || 5), 0)
RECURSIVE ContaminationSum(_)
ContaminationSum(streams) ==
    IF streams = <<>> THEN 0
    ELSE ContaminationSum(SubSeq(streams, 1, Len(streams) - 1))
         + OrElse(Member(streams[Len(streams)], "contaminationLevel"), Num(5)).num

\* Math.round((score / maxScore) * 100) when maxScore > 0, else 0. The score
\* is kept exact: with s the points of the prevention measures (the
\* prevention score is 100 s / 32), n the streams and c the sum of their
\* levels, score = whole + 30 s / 32 + 25 (5 n - c) / (4 n)
calculateOverallScore(data) ==
    LET streams == ScoredStreams(data)
        n == IF Len(streams) > 0 THEN Len(streams) ELSE 1
        prevention == calculatePreventionScore(Prop(data, "wastePreventionMeasures"))
        whole == InfrastructurePoints(data) + TrainingPoints(data)
        contamination == IF Len(streams) > 0
                         THEN 25 * (5 * n - ContaminationSum(streams)) ELSE 0
        maxScore == 20 + 30 + TrainingMax(data) + (IF Len(streams) > 0 THEN 25 ELSE 0)
        \* score = num / den
        den == 100 * prevention.den * 4 * n
        num == whole * den
               + 30 * prevention.num * 4 * n
               + contamination * 100 * prevention.den
    IN  IF maxScore > 0 THEN Round(100 * num, den * maxScore) ELSE 0

\* a bin of the bin inventory
Bin(binType, signagePresent, signageQuality) ==
    Obj(<< <<"binType", Str(binType)>>,
           <<"signagePresent", Bool(signagePresent)>>,
           <<"signageQuality", Num(signageQuality)>> >>)

\* a facilityInfrastructure section with the given bins
Facility(bins) ==
    Obj(<< <<"binInventory", Arr(bins)>>,
           <<"totalBins", Num(Len(bins))>>,
           <<"outdoorBinsPresent", Bool(FALSE)>> >>)

\* a behavioralTraining section
Training(champion, materials, records) ==
    Obj(<< <<"wasteChampionAppointed", Bool(champion)>>,
           <<"userEducationMaterialsDisplayed", Bool(materials)>>,
           <<"wasteMonitoringRecordsKept", Str(records)>> >>)

\* an organicWasteComposting section
Composting(kitchenPresent, compostingSystem) ==
    Obj(<< <<"kitchenPresent", Bool(kitchenPresent)>>,
           <<"compostingSystem", Str(compostingSystem)>> >>)

\* a specialWasteManagement section whose WEEE collection has the given status
SpecialWaste(status) ==
    Obj(<< <<"weeeCollection",
             Obj(<< <<"type", Str("WEEE Collection")>>, <<"status", Str(status)>> >>)>> >>)

\* a wastePreventionMeasures section: the levels of the measures it holds
Prevention(levels) ==
    Obj([i \in 1..Len(levels) |-> <<PreventionMeasures[i], Str(levels[i])>>])

\* the sections an assessed record may hold, each absent (undefined) or one of
\* a few values
InsightOptions(key) ==
    CASE key = "facilityInfrastructure" ->
            {Undefined} \cup
            { Facility(bins) :
                bins \in UNION { [1..n -> { Bin("dry_recyclables", FALSE, 3),
                                            Bin("dry_recyclables", TRUE, 2),
                                            Bin("general_waste", TRUE, 4) }] :
                                 n \in 0..MaxBins } }
      [] key = "wasteStreamsAssessment" ->
            {Undefined} \cup
            { Obj(<< <<"assessments", Arr(streams)>> >>) :
                streams \in UNION { [1..n -> { StreamOfType("hazardous", 600, 4, Undefined),
                                               StreamOfType("general", 600, 1, Undefined),
                                               StreamOfType("general", 5, 9, Undefined),
                                               StreamOfType("organic", 5, 0, Undefined) }] :
                                    n \in 0..MaxStreams } }
      [] key = "behavioralTraining" ->
            { Undefined, Training(FALSE, FALSE, "never"), Training(TRUE, TRUE, "weekly") }
      [] key = "organicWasteComposting" ->
            { Undefined, Composting(FALSE, "none"), Composting(TRUE, "none"),
              Composting(TRUE, "traditional") }
      [] key = "specialWasteManagement" ->
            { Undefined, Obj(<<>>), SpecialWaste("no"), SpecialWaste("yes") }
      [] key = "wastePreventionMeasures" ->
            { Undefined,
              Prevention(<<"not_implemented", "not_implemented", "not_implemented",
                           "not_implemented", "not_implemented", "not_implemented",
                           "not_implemented", "not_implemented">>),
              Prevention(<<"full", "partial", "planned", "not_implemented">>),
              Prevention(<<"full", "full", "full", "full", "full", "full", "full",
                           "full">>) }

InsightKeys ==
    { "facilityInfrastructure", "wasteStreamsAssessment", "behavioralTraining",
      "organicWasteComposting", "specialWasteManagement", "wastePreventionMeasures" }

\* the partial records whose insights are computed: an absent section is no
\* member of the record
InsightRecords ==
    { [k \in { key \in InsightKeys : ~IsUndefined(choice[key]) } |-> choice[k]] :
        choice \in { [facilityInfrastructure |-> f, wasteStreamsAssessment |-> w,
                      behavioralTraining |-> b, organicWasteComposting |-> o,
                      specialWasteManagement |-> s, wastePreventionMeasures |-> p] :
                        f \in InsightOptions("facilityInfrastructure"),
                        w \in InsightOptions("wasteStreamsAssessment"),
                        b \in InsightOptions("behavioralTraining"),
                        o \in InsightOptions("organicWasteComposting"),
                        s \in InsightOptions("specialWasteManagement"),
                        p \in InsightOptions("wastePreventionMeasures") } }

\* the quick wins of the record are generated
GenerateQuickWins ==
    /\ last.op = "input"
    /\ last' = Call("quickWins", 0, last.data, generateQuickWins(last.data))
    /\ UNCHANGED <<audits, nextAuditId, waste_data, images, clock, concVars>>

\* the compliance alerts of the record are generated
GenerateComplianceAlerts ==
    /\ last.op = "input"
    /\ last' = Call("complianceAlerts", 0, last.data, generateComplianceAlerts(last.data))
    /\ UNCHANGED <<audits, nextAuditId, waste_data, images, clock, concVars>>

\* the prevention score of the record's prevention measures is calculated
CalculatePreventionScore ==
    /\ last.op = "input"
    /\ last' = Call("preventionScore", 0, last.data,
                    calculatePreventionScore(Prop(last.data, "wastePreventionMeasures")))
    /\ UNCHANGED <<audits, nextAuditId, waste_data, images, clock, concVars>>

\* the overall score of the record is calculated
CalculateOverallScore ==
    /\ last.op = "input"
    /\ last' = Call("overallScore", 0, last.data, calculateOverallScore(last.data))
    /\ UNCHANGED <<audits, nextAuditId, waste_data, images, clock, concVars>>

\* the insights depend on the record only: a behaviour draws one and computes
\* once
InitInsights ==
    /\ audits = {}
    /\ nextAuditId = 1
    /\ waste_data = [id \in AuditIds |-> <<>>]
    /\ images = {}
    /\ clock = 0
    /\ last \in { Call("input", 0, data, TRUE) : data \in InsightRecords }
    /\ calls = [slot \in Slots |-> Idle]
    /\ commits = <<>>
    /\ before = waste_data

NextInsights ==
    \/ GenerateQuickWins
    \/ GenerateComplianceAlerts
    \/ CalculatePreventionScore
    \/ CalculateOverallScore

SpecInsights == InitInsights /\ [][NextInsights]_vars

-----------------------------------------------------------------------------
(* Saves and auto-saves of one audit, one after the other                  *)

MaxSyncRows == 8     \* rows the waste_data table may hold in these sequences

\* the records a form sends with its own syncStatus, without one, and with a
\* stream whose volume is negative
SyncRecords ==
    { NoData,
      [k \in {"syncStatus"} |-> Str("offline")],
      [k \in {"syncStatus"} |-> Str("synced")],
      [k \in {"syncStatus"} |-> Str("pending")],
      [k \in {"wasteStreamsAssessment"} |->
          StreamsOf(Stream(Num(-1), Num(3), Undefined))] }

\* the bodies posted: for the registered audit and for one never created
SyncBodies ==
    { Body(auditId, data, isAutoSave) :
        auditId \in AuditIds, data \in SyncRecords, isAutoSave \in BOOLEAN }

\* POST /api/waste-audit/save
SaveRequest(body) ==
    \E r \in {savePOST(Database, body, clock)} :
        /\ RowCount(r.db.waste_data) <= MaxSyncRows
        /\ Stored(r.db)
        /\ last' = Call("POST save", body.auditId, body, r.response)
        /\ UNCHANGED <<nextAuditId, clock, concVars>>

\* POST /api/waste-audit/autosave
AutosaveRequest(body) ==
    \E r \in {autosavePOST(Database, body, clock)} :
        /\ RowCount(r.db.waste_data) <= MaxSyncRows
        /\ Stored(r.db)
        /\ last' = Call("POST autosave", body.auditId, body, r.response)
        /\ UNCHANGED <<nextAuditId, clock, concVars>>

NextSync ==
    \/ \E body \in SyncBodies : SaveRequest(body)
    \/ \E body \in SyncBodies : AutosaveRequest(body)

\* audit 1 is registered and has no waste audit yet
SpecSync == InitEndpoints /\ [][NextSync]_vars

\* the ids of the quick wins of a list
IdsOf(wins) == { wins[i].id : i \in 1..Len(wins) }

\* the bins documented in a record, none when the section is absent
BinsIn(data) ==
    LET inventory == Member(Prop(data, "facilityInfrastructure"), "binInventory")
    IN  IF IsArr(inventory) THEN inventory.arr ELSE <<>>

\* a waste champion is appointed according to the record
ChampionIn(data) ==
    Member(Prop(data, "behavioralTraining"), "wasteChampionAppointed") = Bool(TRUE)

\* the priorities of a list of quick wins ascend
PriorityOrder(wins) ==
    \A i, j \in 1..Len(wins) : i < j => wins[i].priority < wins[j].priority

\* the record has a dry_recyclables bin whose signage is absent, and no champion
RecyclingBinNoSignageNoChampion(data) ==
    /\ \E i \in 1..Len(BinsIn(data)) :
          /\ Member(BinsIn(data)[i], "binType") = Str("dry_recyclables")
          /\ Member(BinsIn(data)[i], "signagePresent") = Bool(FALSE)
    /\ ~ChampionIn(data)

\* C21: generateQuickWins emits 'add-recycling-bins' exactly when the bin
\* inventory holds no bin of type dry_recyclables and 'appoint-champion'
\* exactly when no waste champion is appointed; for a record with a
\* dry_recyclables bin whose signage is absent and no champion, the result
\* holds 'appoint-champion' and not 'add-recycling-bins', in priority order
C21_RecyclingBinsAndChampion ==
    last.op = "quickWins" =>
        /\ "add-recycling-bins" \in IdsOf(last.ret)
              <=> ~\E i \in 1..Len(BinsIn(last.data)) :
                      Member(BinsIn(last.data)[i], "binType") = Str("dry_recyclables")
        /\ "appoint-champion" \in IdsOf(last.ret) <=> ~ChampionIn(last.data)
        /\ RecyclingBinNoSignageNoChampion(last.data) =>
              /\ "add-recycling-bins" \notin IdsOf(last.ret)
              /\ "appoint-champion" \in IdsOf(last.ret)
              /\ PriorityOrder(last.ret)

C21_Witness ==
    /\ last.op = "quickWins"
    /\ RecyclingBinNoSignageNoChampion(last.data)
    /\ Len(last.ret) >= 2
    /\ "appoint-champion" \in IdsOf(last.ret)

\* the conditions of the quick wins, stated on the record
ConditionsIn(data) ==
    LET bins == BinsIn(data)
        streams == StreamsIn(data)
        organic == Prop(data, "organicWasteComposting")
    IN  [k \in 1..5 |->
            CASE k = 1 -> ~\E i \in 1..Len(bins) :
                              Member(bins[i], "binType") = Str("dry_recyclables")
              [] k = 2 -> \E i \in 1..Len(bins) :
                              /\ Member(bins[i], "signagePresent") = Bool(TRUE)
                              /\ Member(bins[i], "signageQuality").num < 3
              [] k = 3 -> \E i \in 1..Len(streams) :
                              Member(streams[i], "contaminationLevel").num > 3
              [] k = 4 -> ~ChampionIn(data)
              [] k = 5 -> /\ Member(organic, "kitchenPresent") = Bool(TRUE)
                          /\ Member(organic, "compostingSystem") = Str("none")]

\* C22: the list returned by generateQuickWins has at most 5 elements, one
\* per true condition among the five, is sorted by ascending priority, and
\* its priorities are 1..n without gaps in the order of the declarations
\* (recycling bins, signage, contamination training, champion, composting)
C22_QuickWinsRanked ==
    last.op = "quickWins" =>
        LET wins == last.ret
            holds == ConditionsIn(last.data)
            true == { k \in 1..5 : holds[k] }
        IN  /\ Len(wins) <= 5
            /\ Len(wins) = Cardinality(true)
            /\ \A k \in 1..5 :
                  Cardinality({ i \in 1..Len(wins) : wins[i].id = QuickWinIds[k] })
                      = IF holds[k] THEN 1 ELSE 0
            /\ \A i \in 1..Len(wins) : wins[i].priority = i
            /\ \A i, j \in 1..Len(wins) :
                  i < j => \E k, l \in 1..5 :
                              /\ k < l
                              /\ wins[i].id = QuickWinIds[k]
                              /\ wins[j].id = QuickWinIds[l]

C22_Witness ==
    /\ last.op = "quickWins"
    /\ Len(last.ret) = 3
    /\ ~ConditionsIn(last.data)[1]
    /\ ConditionsIn(last.data)[3]
    /\ last.ret[3].id = "start-composting"

\* the elements of a list
RangeOf(list) == { list[i] : i \in 1..Len(list) }

\* the record documents a WEEE-collection arrangement: its weeeCollection
\* item has the status 'yes'
WeeeArrangementIn(data) ==
    Member(Member(Prop(data, "specialWasteManagement"), "weeeCollection"), "status")
        = Str("yes")

\* the summed weekly volume of the streams of a record
WeeklyVolumeIn(data) == SumOver(StreamsIn(data), VolumeIn)

\* C23: generateComplianceAlerts includes the hazardous-waste alert exactly
\* when some stream is of type hazardous and the record documents no
\* WEEE-collection arrangement, and the large-facility alert exactly when the
\* summed weekly volume exceeds 1000 L and the composting system is 'none';
\* it adds nothing else
C23_ComplianceAlerts ==
    last.op = "complianceAlerts" =>
        /\ HazardousAlert \in RangeOf(last.ret)
              <=> /\ \E i \in 1..Len(StreamsIn(last.data)) :
                        Member(StreamsIn(last.data)[i], "wasteStream") = Str("hazardous")
                  /\ ~WeeeArrangementIn(last.data)
        /\ LargeFacilityAlert \in RangeOf(last.ret)
              <=> /\ WeeklyVolumeIn(last.data) > 1000
                  /\ Member(Prop(last.data, "organicWasteComposting"), "compostingSystem")
                         = Str("none")
        /\ RangeOf(last.ret) \subseteq {HazardousAlert, LargeFacilityAlert}
        /\ Len(last.ret) = Cardinality(RangeOf(last.ret))

\* the points the measures of a section sum to: 4 for 'full', 2 for
\* 'partial', 1 for 'planned', 0 otherwise
PointsIn(prevention) ==
    LET P[k \in 0..8] ==
            IF k = 0 THEN 0
            ELSE P[k - 1]
                 + (LET value == Member(prevention, PreventionMeasures[k])
                    IN  IF value = Str("full") THEN 4
                        ELSE IF value = Str("partial") THEN 2
                        ELSE IF value = Str("planned") THEN 1
                        ELSE 0)
    IN  P[8]

\* C24: calculatePreventionScore returns (sum / 32) x 100, each of the 8
\* measures giving 4 for 'full', 2 for 'partial', 1 for 'planned' and 0 for
\* 'not_implemented' or absent; it is 0 when the section is absent and lies
\* in [0, 100]
C24_PreventionScore ==
    last.op = "preventionScore" =>
        LET prevention == Prop(last.data, "wastePreventionMeasures")
        IN  /\ last.ret.den > 0
            /\ last.ret.num * 32 = 100 * PointsIn(prevention) * last.ret.den
            /\ IsUndefined(prevention) => last.ret.num = 0
            /\ 0 <= last.ret.num
            /\ last.ret.num <= 100 * last.ret.den

C24_Witness ==
    /\ last.op = "preventionScore"
    /\ PointsIn(Prop(last.data, "wastePreventionMeasures")) = 7
    /\ last.ret = [num |-> 175, den |-> 8]

\* C25: for every record passed to calculateOverallScore through the
\* calculate endpoint, whatever integer contamination levels its streams
\* carry, the overall score is an integer from 0 to 100
C25_ScoreWithinRange ==
    last.op = "overallScore" => last.ret \in 0..100

\* the contamination level counted for a stream: its level, 5 when it has none
LevelIn(stream) ==
    LET level == Member(stream, "contaminationLevel")
    IN  IF IsNum(level) /\ level.num # 0 THEN level.num ELSE 5

\* the training section of a record is present
TrainingIn(data) == "behavioralTraining" \in DOMAIN data

\* the points of the training section of a record
TrainingPointsIn(data) ==
    LET training == Prop(data, "behavioralTraining")
    IN  (IF Member(training, "wasteChampionAppointed") = Bool(TRUE) THEN 10 ELSE 0)
        + (IF Member(training, "userEducationMaterialsDisplayed") = Bool(TRUE) THEN 10 ELSE 0)
        + (IF Member(training, "wasteMonitoringRecordsKept") # Str("never") THEN 5 ELSE 0)

\* the points of the infrastructure section of a record
InfrastructurePointsIn(data) ==
    LET bins == BinsIn(data)
    IN  (IF 2 * Len(bins) < 10 THEN 2 * Len(bins) ELSE 10)
        + (IF \E i \in 1..Len(bins) : Member(bins[i], "binType") = Str("dry_recyclables")
           THEN 10 ELSE 0)

\* the score of a record whose components enter as stated: infrastructure
\* (of 20) and prevention (of 30) always, training (of 25) when the section is
\* present, contamination (of 25) when a stream exists; the raw score is
\* scaled by 128 n to stay whole
ScoreIn(data) ==
    LET streams == StreamsIn(data)
        n == Len(streams)
        m == IF n > 0 THEN n ELSE 1
        points == PointsIn(Prop(data, "wastePreventionMeasures"))
        training == IF TrainingIn(data) THEN TrainingPointsIn(data) ELSE 0
        contamination == IF n > 0 THEN 25 * (5 * n - SumOver(streams, LevelIn)) ELSE 0
        achievable == 20 + 30 + (IF TrainingIn(data) THEN 25 ELSE 0)
                      + (IF n > 0 THEN 25 ELSE 0)
        raw == (InfrastructurePointsIn(data) + training) * 128 * m
               + 30 * points * 4 * m
               + contamination * 32
    IN  Round(100 * raw, 128 * m * achievable)

\* a record with zero bins, zero streams, no prevention measures and no
\* training section
NothingToScore(data) ==
    /\ Len(BinsIn(data)) = 0
    /\ Len(StreamsIn(data)) = 0
    /\ PointsIn(Prop(data, "wastePreventionMeasures")) = 0
    /\ ~TrainingIn(data)

\* C26: in calculateOverallScore the training component enters the score and
\* the denominator (25) only when the training section is present, the
\* contamination component (25) only when a stream exists, infrastructure
\* (20) and prevention (30) always; a record with zero bins, zero streams, no
\* prevention measures and no training section scores 0
C26_ScoreComponents ==
    last.op = "overallScore" =>
        /\ last.ret = ScoreIn(last.data)
        /\ NothingToScore(last.data) => last.ret = 0

C26_Witness ==
    /\ last.op = "overallScore"
    /\ NothingToScore(last.data)
    /\ "facilityInfrastructure" \in DOMAIN last.data
    /\ "wastePreventionMeasures" \in DOMAIN last.data
    /\ last.ret = 0

\* the audit id has a row in the audits table
Registered(id) == [id |-> id] \in audits

\* C27: no waste_data row exists for an audit id absent from the audits
\* table: saveWasteAudit and updateWasteAudit called with an id that was
\* never created fail (success false, false) and write no rows, and
\* getWasteAudit returns null for such an id
C27_NoRowsWithoutAudit ==
    /\ \A id \in AuditIds :
          ~Registered(id) => /\ waste_data[id] = <<>>
                             /\ getWasteAudit(Database, id) = Null
    /\ (last.op = "save" /\ ~Registered(last.id)) => ~last.ret.success
    /\ (last.op = "update" /\ ~Registered(last.id)) => ~last.ret

\* an update of an audit that was never created has failed while another
\* audit is stored
C27_Witness ==
    /\ last.op = "update" /\ ~last.ret
    /\ ~Registered(last.id)
    /\ \E other \in AuditIds : Registered(other) /\ waste_data[other] # <<>>

\* C28: after any sequence of creations, saves and updates, repeated
\* auto-saves of one audit included, getAllWasteAudits returns one summary row
\* per row of the audits table, audits without entries included, and no audit
\* twice
C28_OneSummaryPerAudit ==
    last.op = "list" =>
        LET list == getAllWasteAudits(Database)
        IN  /\ Len(list) = Cardinality(audits)
            /\ \A audit \in audits :
                  Cardinality({ i \in 1..Len(list) : list[i].auditId = audit.id }) = 1

\* the audits for which getWasteAudit returns a record with a numeric
\* completedSections
AuditsWithCompletion ==
    { id \in AuditIds :
        /\ getWasteAudit(Database, id) # Null
        /\ IsNum(Field(getWasteAudit(Database, id), "completedSections")) }

\* C29: in every reachable store state the statistics agree with the
\* reconstructed records: completedAudits is the number of audit ids for
\* which getWasteAudit returns completedSections = 6, averageCompletion is
\* the mean of the completedSections values getWasteAudit returns over the
\* audits that have one, and completedAudits <= totalAudits
C29_StatsAgreeWithRecords ==
    LET stats == getWasteAuditStats(Database)
        total == SumOver([id \in 1..MaxAuditId |-> id],
                         LAMBDA id : IF id \in AuditsWithCompletion
                                     THEN Field(getWasteAudit(Database, id),
                                                "completedSections").num
                                     ELSE 0)
    IN  /\ stats.completedAudits =
               Cardinality({ id \in AuditsWithCompletion :
                   Field(getWasteAudit(Database, id), "completedSections").num = 6 })
        /\ AuditsWithCompletion # {} =>
               stats.averageCompletion.num * Cardinality(AuditsWithCompletion)
                   = total * stats.averageCompletion.den
        /\ stats.completedAudits <= stats.totalAudits

\* the syncStatus getWasteAudit reports for an audit
SyncStatusOf(db, id) == Field(getWasteAudit(db, id), "syncStatus")

\* C30: after any sequence of successful calls of the save endpoint and the
\* autosave endpoint for one audit, the syncStatus getWasteAudit reports is
\* the one written by the most recent successful call, 'synced' after a save
\* and 'pending' after an auto-save, whatever syncStatus the payload holds: a
\* successful call sets it, a failed call and a call for another audit leave
\* it as it was
C30_LatestSyncStatus ==
    [][ LET call == last'
        IN  /\ (call.op = "POST save" /\ call.ret.success)
                  => SyncStatusOf(Database', call.id) = Str("synced")
            /\ (call.op = "POST autosave" /\ call.ret.success)
                  => SyncStatusOf(Database', call.id) = Str("pending")
            /\ \A id \in AuditIds :
                  (id # call.id \/ ~call.ret.success)
                      => SyncStatusOf(Database', id) = SyncStatusOf(Database, id) ]_vars

\* an auto-save whose payload says 'synced' followed a save: the audit reads
\* 'pending'
C30_Witness ==
    /\ last.op = "POST autosave" /\ last.ret.success
    /\ Prop(last.data.wasteAuditData, "syncStatus") = Str("synced")
    /\ \E i \in 1..Len(waste_data[last.id]) :
          /\ waste_data[last.id][i].item_key = "syncStatus"
          /\ waste_data[last.id][i].response = <<"synced">>
          /\ i < Len(waste_data[last.id]) - 2
    /\ SyncStatusOf(Database, last.id) = Str("pending")

====
